---- MODULE Spec2Model ----
(***************************************************************************)
(* A toroidal multi-state cellular automaton (Day & Night, B3678/S34678)   *)
(* run on the GPU: the WGSL kernels computeMain, stampMain and historyMain *)
(* and the JavaScript driver that ping-pongs two state textures and two    *)
(* trail textures, stamps patterns and maps the pointer to grid cells.     *)
(*                                                                         *)
(* Cell codes are the floats 0.0 .. 4.0 the kernels store; they are kept   *)
(* as integers and a comparison with a half-integer threshold t/2 is       *)
(* written 2*v > t.  View quantities (zoom, pan, pointer position) are     *)
(* fixed-point numbers with FP units to 1.0.  The device queue runs the    *)
(* submitted command buffers in order, so the effect of a submission is    *)
(* taken at the submit call of the handler that makes it.                  *)
(***************************************************************************)
EXTENDS Integers, Sequences, FiniteSets, TLC

\* ------------------------------------------------------------- bounds ----
\* Handler invocations explored from the constructed state.
MaxSteps == 4
\* Largest |anchor| / grid-size multiple fed to the stamp coordinate wrap.
MaxAnchorTurns == 2

\* ---------------------------------------------------------- constants ----
Dead == 0
Alive == 1
Chaos == 2
AlwaysDead == 3
AlwaysAlive == 4
CellStates == {Dead, Alive, Chaos, AlwaysDead, AlwaysAlive}

\* Threads per workgroup axis: WORKGROUP_SIZE in the driver and
\* @workgroup_size(16, 16) in the kernels.
WORKGROUP_SIZE == 16
\* Fixed-point unit of the view arithmetic (1.0).
FP == 1000
\* Grid sizes offered by the size selector, scaled down; each holds the
\* largest catalog pattern (5 x 5) without self-overlap.
GridSizes == {5, 6}
InitialGridSize == 6

\* const patterns = [...]; data is row-major, indexed from 1 here.
patterns ==
  << [name |-> "Glider", w |-> 3, h |-> 3,
      data |-> << 0, 1, 0,
                  0, 0, 1,
                  1, 1, 1 >>],
     [name |-> "LWSS", w |-> 5, h |-> 4,
      data |-> << 0, 1, 1, 1, 1,
                  1, 0, 0, 0, 1,
                  0, 0, 0, 0, 1,
                  1, 0, 0, 1, 0 >>],
     [name |-> "Block", w |-> 2, h |-> 2,
      data |-> << 1, 1,
                  1, 1 >>],
     [name |-> "Rocket (Placeholder)", w |-> 5, h |-> 5,
      data |-> << 0, 0, 1, 0, 0,
                  0, 1, 1, 1, 0,
                  1, 0, 1, 0, 1,
                  0, 1, 1, 1, 0,
                  0, 1, 0, 1, 0 >>] >>

\* ------------------------------------------------------------ helpers ----
Cells(size) == (0 .. size - 1) \X (0 .. size - 1)

\* WGSL's % on i32: the remainder of a division truncating toward zero.
TruncRem(a, b) == IF a >= 0 THEN a % b ELSE 0 - ((0 - a) % b)

\* Math.ceil(a / b) for positive integers.
CeilDiv(a, b) == (a + b - 1) \div b

\* global_invocation_id values of dispatchWorkgroups(nx, ny).
Invocations(nx, ny) ==
  (0 .. nx * WORKGROUP_SIZE - 1) \X (0 .. ny * WORKGROUP_SIZE - 1)

\* new Float32Array(n).fill(0.0) as a size x size texture.
BlankGrid(size) == [c \in Cells(size) |-> Dead]

\* ------------------------------------------------ shaders.wgsl: rand ----
\* fract(sin(dot(co, (12.9898, 78.233))) * 43758.5453) in thousandths: a
\* deterministic hash of the seed vector into [0, 1).  The sine is replaced
\* by an integer mix of the same dot product.
rand(co) ==
  LET dot == co[1] * 12989 + co[2] * 78233
  IN  (((dot % 10000) * 43758) \div 7) % FP

\* -------------------------------------------- shaders.wgsl: computeMain ----
\* The (i, j) pairs of the two nested loops, the centre skipped.
NeighborOffsets ==
  << <<-1, -1>>, <<-1, 0>>, <<-1, 1>>,
     << 0, -1>>,            << 0, 1>>,
     << 1, -1>>, << 1, 0>>, << 1, 1>> >>

\* WrapNeighbor that clamps to the edge instead of wrapping.
WrapNeighbor_Clamp(x, i, width) ==
  IF x + i < 0 THEN 0 ELSE IF x + i >= width THEN width - 1 ELSE x + i

\* let nx = (x + i + width) % width;
WrapNeighbor(x, i, width) == TruncRem(x + i + width, width)

\* NeighborContribution with the last test written > 2.5: AlwaysDead counts.
NeighborContribution_AlwaysDeadCounts(cellStateIn, width, height, x, y, off, time10) ==
  LET neighborState ==
        cellStateIn[<<TruncRem(x + off[1] + width, width),
                      TruncRem(y + off[2] + height, height)>>]
  IN  IF 2 * neighborState > 1 /\ 2 * neighborState < 3 THEN 1
      ELSE IF 2 * neighborState > 3 /\ 2 * neighborState < 5 THEN 0
      ELSE IF 2 * neighborState > 5 THEN 1
      ELSE 0

\* NeighborContribution that draws rand for an Alive neighbour as well.
NeighborContribution_AliveDrawn(cellStateIn, width, height, x, y, off, time10) ==
  LET i  == off[1]
      j  == off[2]
      nx == WrapNeighbor(x, i, width)
      ny == WrapNeighbor(y, j, height)
      neighborState == cellStateIn[<<nx, ny>>]
  IN  IF 2 * neighborState > 1 /\ 2 * neighborState < 5
        THEN IF 2 * rand(<<nx + time10, ny + (i * 3 + j)>>) > FP THEN 1 ELSE 0
      ELSE IF 2 * neighborState > 7 THEN 1
      ELSE 0

\* What one neighbour adds to activeNeighbors.  time10 is time * 10.0.
NeighborContribution(cellStateIn, width, height, x, y, off, time10) ==
  LET i  == off[1]
      j  == off[2]
      nx == WrapNeighbor(x, i, width)
      ny == WrapNeighbor(y, j, height)
      neighborState == cellStateIn[<<nx, ny>>]
  IN  IF 2 * neighborState > 1 /\ 2 * neighborState < 3 THEN 1
      ELSE IF 2 * neighborState > 3 /\ 2 * neighborState < 5
        THEN IF 2 * rand(<<nx + time10, ny + (i * 3 + j)>>) > FP THEN 1 ELSE 0
      ELSE IF 2 * neighborState > 7 THEN 1
      ELSE 0

RECURSIVE SumContributions(_, _, _, _, _, _, _)
SumContributions(cellStateIn, width, height, x, y, k, time10) ==
  IF k = 0 THEN 0
  ELSE SumContributions(cellStateIn, width, height, x, y, k - 1, time10)
       + NeighborContribution(cellStateIn, width, height, x, y,
                              NeighborOffsets[k], time10)

activeNeighbors(cellStateIn, width, height, x, y, time10) ==
  SumContributions(cellStateIn, width, height, x, y, Len(NeighborOffsets), time10)

\* DayNightRule with Conway's sets (B3/S23).
DayNightRule_Conway(currentState, n) ==
  IF 2 * currentState > 1
    THEN IF n = 2 \/ n = 3 THEN 1 ELSE 0
    ELSE IF n = 3 THEN 1 ELSE 0

\* Day and Night Rules (B3678/S34678) as the kernel's chains of ==.
DayNightRule(currentState, n) ==
  IF 2 * currentState > 1
    THEN IF n = 3 \/ n = 4 \/ n = 6 \/ n = 7 \/ n = 8 THEN 1 ELSE 0
    ELSE IF n = 3 \/ n = 6 \/ n = 7 \/ n = 8 THEN 1 ELSE 0

\* computeCell without the State 4 early return: AlwaysAlive runs the rule.
computeCell_NoAlwaysAlive(cellStateIn, width, height, x, y, time10) ==
  LET currentState == cellStateIn[<<x, y>>]
  IN  IF 2 * currentState > 3 /\ 2 * currentState < 5 THEN 2
      ELSE IF 2 * currentState > 5 /\ 2 * currentState < 7 THEN 3
      ELSE DayNightRule(currentState,
                        activeNeighbors(cellStateIn, width, height, x, y, time10))

\* The value computeMain stores for cell (x, y).
computeCell(cellStateIn, width, height, x, y, time10) ==
  LET currentState == cellStateIn[<<x, y>>]
  IN  IF 2 * currentState > 3 /\ 2 * currentState < 5 THEN 2
      ELSE IF 2 * currentState > 5 /\ 2 * currentState < 7 THEN 3
      ELSE IF 2 * currentState > 7 THEN 4
      ELSE DayNightRule(currentState,
                        activeNeighbors(cellStateIn, width, height, x, y, time10))

\* One dispatch of computeMain over nx x ny workgroups: every invocation
\* inside the texture stores its cell; cellStateOut keeps what nobody stores.
computeMain(cellStateIn, cellStateOut, size, nx, ny, time10) ==
  [c \in Cells(size) |->
     IF c \in Invocations(nx, ny)
       THEN computeCell(cellStateIn, size, size, c[1], c[2], time10)
       ELSE cellStateOut[c]]

\* ---------------------------------------------- shaders.wgsl: stampMain ----
\* StampCoord without the select: the truncated remainder as it comes.
StampCoord_NoSelect(click, p, width) == TruncRem(click + p, width)

\* gridX = (clickPos.x + px) % width;  gx = select(gridX, gridX + width, gridX < 0)
StampCoord(click, p, width) ==
  LET gridX == TruncRem(click + p, width)
  IN  IF gridX < 0 THEN gridX + width ELSE gridX

\* StampFlip that also turns Chaos into Dead.
StampFlip_ChaosCleared(currentState) ==
  IF 2 * currentState > -1 /\ 2 * currentState < 1 THEN 1
  ELSE IF 2 * currentState > 1 /\ 2 * currentState < 3 THEN 0
  ELSE IF 2 * currentState > 3 /\ 2 * currentState < 5 THEN 0
  ELSE IF 2 * currentState > 5 /\ 2 * currentState < 7 THEN 4
  ELSE IF 2 * currentState > 7 /\ 2 * currentState < 9 THEN 3
  ELSE currentState

\* StampFlip that takes Always Alive one code up instead of back to Always
\* Dead.
StampFlip_NoWrap(currentState) ==
  IF 2 * currentState > -1 /\ 2 * currentState < 1 THEN 1
  ELSE IF 2 * currentState > 1 /\ 2 * currentState < 3 THEN 0
  ELSE IF 2 * currentState > 5 /\ 2 * currentState < 7 THEN 4
  ELSE IF 2 * currentState > 7 /\ 2 * currentState < 9 THEN 5
  ELSE currentState

\* StampFlip that turns Always Alive into Dead.
StampFlip_AlwaysAliveDies(currentState) ==
  IF 2 * currentState > -1 /\ 2 * currentState < 1 THEN 1
  ELSE IF 2 * currentState > 1 /\ 2 * currentState < 3 THEN 0
  ELSE IF 2 * currentState > 5 /\ 2 * currentState < 7 THEN 4
  ELSE IF 2 * currentState > 7 /\ 2 * currentState < 9 THEN 0
  ELSE currentState

\* StampFlip that paints instead of toggling: Alive stays Alive.
StampFlip_Paints(currentState) ==
  IF 2 * currentState > -1 /\ 2 * currentState < 1 THEN 1
  ELSE IF 2 * currentState > 1 /\ 2 * currentState < 3 THEN 1
  ELSE IF 2 * currentState > 5 /\ 2 * currentState < 7 THEN 4
  ELSE IF 2 * currentState > 7 /\ 2 * currentState < 9 THEN 3
  ELSE currentState

\* FLIP LOGIC
StampFlip(currentState) ==
  IF 2 * currentState > -1 /\ 2 * currentState < 1 THEN 1
  ELSE IF 2 * currentState > 1 /\ 2 * currentState < 3 THEN 0
  ELSE IF 2 * currentState > 5 /\ 2 * currentState < 7 THEN 4
  ELSE IF 2 * currentState > 7 /\ 2 * currentState < 9 THEN 3
  ELSE currentState

\* StampWriters without the test of the pattern value: the whole box writes.
StampWriters_WholeBox(pattern, nx, ny) ==
  {p \in Invocations(nx, ny) : ~(p[1] >= pattern.w \/ p[2] >= pattern.h)}

\* Invocations of a dispatch that pass the patternSize guard and read a 1.
StampWriters(pattern, nx, ny) ==
  {p \in Invocations(nx, ny) :
     /\ ~(p[1] >= pattern.w \/ p[2] >= pattern.h)
     /\ pattern.data[p[2] * pattern.w + p[1] + 1] = 1}

\* One dispatch of stampMain: each writer stores the flipped value it loads
\* from cellStateIn; writers that meet on a texel store the same value.
stampMain(cellStateIn, cellStateOut, size, clickPos, pattern, nx, ny) ==
  LET writers == StampWriters(pattern, nx, ny)
      target(p) == <<StampCoord(clickPos[1], p[1], size),
                     StampCoord(clickPos[2], p[2], size)>>
      written == {target(p) : p \in writers}
  IN  [c \in Cells(size) |->
         IF c \in written THEN StampFlip(cellStateIn[c]) ELSE cellStateOut[c]]

\* -------------------------------------------- shaders.wgsl: historyMain ----
\* Trail values are thousandths (FP = 1.0); decay is in thousandths too.
\* historyCell that also marks the band of 2.0 (Chaos) as active.
historyCell_ChaosMarks(currentState, oldHistory, decay, isActive) ==
  LET decayed == (oldHistory * decay) \div FP
      marked  == IF 2 * currentState > 1 /\ 2 * currentState < 5 THEN FP
                 ELSE IF 2 * currentState > 7 THEN FP
                 ELSE decayed
  IN  IF ~isActive THEN 0 ELSE marked

historyCell(currentState, oldHistory, decay, isActive) ==
  LET decayed == (oldHistory * decay) \div FP
      marked  == IF 2 * currentState > 1 /\ 2 * currentState < 3 THEN FP
                 ELSE IF 2 * currentState > 7 THEN FP
                 ELSE decayed
  IN  IF ~isActive THEN 0 ELSE marked

\* historyMain that loads oldHistory from the texture it stores to.
historyMain_ReadsOut(cellStateIn, historyIn, historyOut, size, nx, ny, decay, isActive) ==
  [c \in Cells(size) |->
     IF c \in Invocations(nx, ny)
       THEN historyCell(cellStateIn[c], historyOut[c], decay, isActive)
       ELSE historyOut[c]]

historyMain(cellStateIn, historyIn, historyOut, size, nx, ny, decay, isActive) ==
  [c \in Cells(size) |->
     IF c \in Invocations(nx, ny)
       THEN historyCell(cellStateIn[c], historyIn[c], decay, isActive)
       ELSE historyOut[c]]

\* ------------------------------------------- shaders.wgsl: fragmentMain ----
\* Base Color Logic: the palette entry of the state's band.  pal is
\* <<bg, fg, chaos, alwaysDead, alwaysAlive, trail>>.
BaseColor(state, pal) ==
  IF 2 * state > 7 THEN pal[5]
  ELSE IF 2 * state > 5 THEN pal[4]
  ELSE IF 2 * state > 3 THEN pal[3]
  ELSE IF 2 * state > 1 THEN pal[2]
  ELSE pal[1]

\* The colour fragmentMain returns for a texel: mix(under, over, alpha) is
\* under * (1 - alpha) + over * alpha, kept as its three arguments; alpha 0
\* stands for the branch that leaves color alone.  history and alpha are
\* thousandths.
FragmentColor(state, history, pal) ==
  IF 100 * history > FP
    THEN [under |-> BaseColor(state, pal), over |-> pal[6],
          alpha |-> (history * 6) \div 10]
    ELSE [under |-> BaseColor(state, pal), over |-> pal[6], alpha |-> 0]

\* The clip-space position of the canvas point at the fractions (u, v) of the
\* width and height from the top-left corner: the quad of vertexMain covers
\* the canvas with x from -1.0 (left) to 1.0 and y from -1.0 (bottom) to 1.0.
ClipPos(u, v) == <<2 * u - FP, FP - 2 * v>>

\* VertexUV without output.uv.y = 1.0 - output.uv.y.
VertexUV_NoFlip(pos) == <<(pos[1] + FP) \div 2, (pos[2] + FP) \div 2>>

\* output.uv = pos * 0.5 + 0.5; output.uv.y = 1.0 - output.uv.y, carried to
\* the fragment by linear interpolation.
VertexUV(pos) == <<(pos[1] + FP) \div 2, FP - ((pos[2] + FP) \div 2)>>

\* coords = vec2<i32>(fract((uv / view.scale) - view.offset) * size)
FragmentCoords(uv, view, size) ==
  LET worldU == ((uv[1] * FP) \div view.scale) - view.offset[1]
      worldV == ((uv[2] * FP) \div view.scale) - view.offset[2]
  IN  <<((worldU % FP) * size) \div FP, ((worldV % FP) * size) \div FP>>

\* ------------------------------------------------------------- state ----
VARIABLES
  gridSize,            \* let gridSize
  textureA, textureB,  \* the two r32float state textures
  historyTextureA, historyTextureB,   \* the two trail textures
  useTextureA,         \* TRUE: textureA is the texture the next pass reads
  generation,
  isPlaying,
  fpsInterval,         \* 1000 / cap as [num, den], or NaN
  then,                \* the tick boundary, or NaN
  zoom, panX, panY,    \* view, fixed point
  viewUniformBuffer,   \* offset and scale as updateViewUniforms last wrote them
  trailsActive, decayValue,
  palette,             \* the six colours last written to paletteBuffer
  isStampActive, currentPatternIndex,
  isDragging, lastMouseX, lastMouseY,
  pendingFrames,       \* frame callbacks requested and not yet run
  steps,               \* handler invocations so far
  pc,                  \* where the frame callback and the stamp handler are
  lastOp               \* the last handler run, the grid it found and left

gridVars == <<gridSize, textureA, textureB, historyTextureA, historyTextureB,
              useTextureA, generation>>
viewVars == <<zoom, panX, panY, viewUniformBuffer, isDragging, lastMouseX,
              lastMouseY>>
settingVars == <<isPlaying, fpsInterval, trailsActive, decayValue, palette,
                 isStampActive, currentPatternIndex>>
vars == <<gridVars, viewVars, settingVars, then, pendingFrames, steps, pc, lastOp>>

\* ------------------------------------------------------- bind groups ----
\* computeBindGroupA with textureA at both bindings: a pass that stores into
\* the texture it loads from.
computeBindGroupA_InPlace == [cellStateIn |-> "A", cellStateOut |-> "A"]
computeBindGroupA == [cellStateIn |-> "A", cellStateOut |-> "B"]
computeBindGroupB == [cellStateIn |-> "B", cellStateOut |-> "A"]
historyBindGroupA == [cellStateIn |-> "A", historyIn |-> "A", historyOut |-> "B"]
historyBindGroupB == [cellStateIn |-> "B", historyIn |-> "B", historyOut |-> "A"]
renderBindGroupA  == [cellTexture |-> "A", historyTexture |-> "A"]
renderBindGroupB  == [cellTexture |-> "B", historyTexture |-> "B"]
stampBindGroupA   == [cellStateIn |-> "A", cellStateOut |-> "B"]
stampBindGroupB   == [cellStateIn |-> "B", cellStateOut |-> "A"]

\* textureToRender that follows the flag alone, playing or not.
textureToRender_FlagOnly(playing, flag) ==
  IF flag THEN renderBindGroupA ELSE renderBindGroupB

\* frame: the bind group of the render pass, chosen before the flip.
textureToRender(playing, flag) ==
  IF playing
    THEN (IF flag THEN renderBindGroupB ELSE renderBindGroupA)
    ELSE (IF flag THEN renderBindGroupA ELSE renderBindGroupB)

\* The grid the next compute or stamp pass reads.
CurrentGrid == IF useTextureA THEN textureA ELSE textureB

\* ------------------------------------------------------ small inputs ----
SystemPalette == <<"#29AE93", "#00FFCC", "#FFA500", "#003300", "#CCFFCC", "#FF00FF">>
UserPalette   == <<"#000000", "#FFFFFF", "#FF0000", "#202020", "#E0E0E0", "#00FF00">>

Interval(val) == [num |-> 1000, den |-> val, nan |-> FALSE]
NaNInterval   == [num |-> 0, den |-> 0, nan |-> TRUE]

\* ------------------------------------------------------------- clock ----
\* performance.now() enters the program through now - then alone (and
\* through the time uniform, an input of its own), so clock values are kept
\* relative to the value the latest frame callback read: then is <= 0, and a
\* callback that comes gap milliseconds after the latest one reads
\* now = gap.  Clock values are whole numbers of 1 / ClockUnit ms, in which
\* 1000 / cap is whole for every cap that divides 18000 (1, 10, 12, 60, 144
\* among them); a clock value is [t, nan], nan for NaN.
ClockUnit == 18
Clock(t)  == [t |-> t, nan |-> FALSE]
NaNClock  == [t |-> 0, nan |-> TRUE]

\* const elapsed = now - then
ElapsedSince(now, th) == IF th.nan THEN NaNClock ELSE Clock(now - th.t)

\* elapsed < fpsInterval on doubles; any comparison with NaN is false.
ElapsedBelow(elapsed, interval) ==
  /\ ~elapsed.nan
  /\ ~interval.nan
  /\ elapsed.t * interval.den < interval.num * ClockUnit

\* The same for an elapsed time of a whole number of milliseconds.
LessThanInterval(elapsed, interval) ==
  ElapsedBelow(Clock(elapsed * ClockUnit), interval)

\* elapsed % fpsInterval on doubles, for elapsed >= 0; NaN if either is.
ElapsedRem(elapsed, interval) ==
  IF elapsed.nan \/ interval.nan THEN NaNClock
  ELSE Clock(((elapsed.t * interval.den) % (interval.num * ClockUnit))
               \div interval.den)

\* then = now - (elapsed % fpsInterval), taken relative to now.
ThenAfterTick(elapsed, interval) ==
  LET rem == ElapsedRem(elapsed, interval)
  IN  IF rem.nan THEN NaNClock ELSE Clock(0 - rem.t)

\* then as a callback that leaves it alone finds it, relative to its now.
ThenShifted(now, th) == IF th.nan THEN NaNClock ELSE Clock(th.t - now)

\* -------------------------------------------------------- getGridPos ----
\* worldU, worldV of getGridPos before the fractional part is taken.
WorldPoint(u, v, z, px, py) ==
  <<((u * FP) \div z) - px, ((v * FP) \div z) - py>>

\* The cell of a world point: its fractional part times gridSize, floored.
CellOf(w, size) == <<((w[1] % FP) * size) \div FP, ((w[2] % FP) * size) \div FP>>

\* u, v are the pointer position over the canvas as fractions in FP units.
getGridPos(u, v) ==
  LET worldU == ((u * FP) \div zoom) - panX
      worldV == ((v * FP) \div zoom) - panY
      fracU  == worldU % FP
      fracV  == worldV % FP
  IN  <<(fracU * gridSize) \div FP, (fracV * gridSize) \div FP>>

\* writeBuffer(viewUniformBuffer, 0, [panX, panY, zoom, 0.0]): what the
\* ViewUniforms struct of the fragment shader holds.
ViewUniforms(px, py, z) == [offset |-> <<px, py>>, scale |-> z]

\* Called by a handler after its assignments to the view.
updateViewUniforms == viewUniformBuffer' = ViewUniforms(panX', panY', zoom')

\* ------------------------------------------------------------- ghost ----
\* The handlers after which a run of consecutive ticks starts afresh.
RunBreakers ==
  {"stamp", "resize", "soup", "cross", "dot", "yinYang", "trailsToggle",
   "decayInput"}
\* The handlers after which the ticks are counted afresh.
PaceBreakers == {"playPause", "fpsCap", "fpsCapNaN"}
\* The handlers that replace the grid.
Replacers == {"resize", "soup", "cross", "dot", "yinYang"}
\* The positions of a grid that hold Chaos, and those that hold Always Dead
\* or Always Alive.
SpecialAt(g) == [chaos |-> {c \in DOMAIN g : g[c] = Chaos},
                 fixed |-> {c \in DOMAIN g : g[c] \in {AlwaysDead, AlwaysAlive}}]
\* No cell is in a run.
NoRun == [c \in {} |-> 0]
\* The handler did not follow a stamp as a stamp.
NoWas == [twice |-> FALSE, before |-> <<>>]
\* flag: useTextureA as the handler found it.  bound: the textures the
\* handler's passes had bound, by binding name.
\* pace: for every tick since the simulation was last started or stopped and
\* the cap last assigned, the clock time since the then that tick stored
\* (nan when it stored NaN) and the number k of ticks after it.
\* was: for a stamp that came right after a stamp of the same pattern at the
\* same anchor, the current grid that stamp found.
\* special: SpecialAt of the grid the latest load or resize left.
\* trail: the history texture most recently written ("B" while none was,
\* the one the first history pass reads).  run: for every cell that the
\* last ticks, with trails enabled and no run breaker between them, have
\* all left neither Alive nor AlwaysAlive, how many those ticks are (k) and
\* what the history pass of the first of them read for the cell (base).
Op(kind, prev, out, arg, bound) ==
  LET now   == arg.gap * ClockUnit
      moved == [i \in 1 .. Len(lastOp.pace) |->
                  [lastOp.pace[i] EXCEPT
                     !.since = @ + now,
                     !.k = IF kind = "tick" THEN @ + 1 ELSE @]]
      hbg   == IF useTextureA THEN historyBindGroupB ELSE historyBindGroupA
      read  == IF hbg.historyIn = "A" THEN historyTextureA ELSE historyTextureB
      inert == {c \in DOMAIN out : out[c] # Alive /\ out[c] # AlwaysAlive}
      old   == DOMAIN lastOp.run
  IN  [kind |-> kind, prev |-> prev, before |-> CurrentGrid,
       other |-> IF useTextureA THEN textureB ELSE textureA, out |-> out,
       gen |-> generation, flag |-> useTextureA, arg |-> arg, bound |-> bound,
       special |-> IF kind \in Replacers THEN SpecialAt(out) ELSE lastOp.special,
       was |-> IF /\ kind = "stamp" /\ lastOp.kind = "stamp"
                  /\ lastOp.arg.pos = arg.pos
                  /\ lastOp.arg.pattern = arg.pattern
                 THEN [twice |-> TRUE, before |-> lastOp.before]
               ELSE NoWas,
       trail |-> IF kind = "tick" THEN hbg.historyOut
                 ELSE IF kind = "resize" THEN "B"
                 ELSE lastOp.trail,
       run |-> IF kind = "tick" /\ trailsActive
                 THEN [c \in inert |->
                         IF c \in old
                           THEN [k |-> lastOp.run[c].k + 1, base |-> lastOp.run[c].base]
                           ELSE [k |-> 1, base |-> read[c]]]
               ELSE IF kind = "tick" \/ kind \in RunBreakers THEN NoRun
               ELSE lastOp.run,
       pace |-> IF kind \in PaceBreakers THEN <<>>
                ELSE IF kind = "tick" /\ ~fpsInterval.nan
                  THEN Append(moved, [since |-> 0 - then'.t, k |-> 0,
                                      nan |-> then'.nan])
                ELSE IF kind \in {"tick", "skip", "render"} THEN moved
                ELSE lastOp.pace]
NoArg == [pos |-> <<0, 0>>, pattern |-> 0, time10 |-> 0, value |-> 0,
          pivot |-> <<0, 0>>, data |-> <<>>, gap |-> 0, pan |-> <<0, 0>>,
          deltaYNegative |-> FALSE]
\* The handler encoded no pass.
NoPass == [cellStateIn |-> "none", cellStateOut |-> "none",
           historyIn |-> "none", historyOut |-> "none",
           cellTexture |-> "none", historyTexture |-> "none"]
\* A handler that leaves the grid alone.
Quiet(kind) == Op(kind, lastOp.out, lastOp.out, NoArg, NoPass)

\* requestAnimationFrame(frame) issued by a handler while paused.
RequestFrameIfPaused ==
  pendingFrames' = IF ~isPlaying THEN pendingFrames + 1 ELSE pendingFrames

\* No handler is between its device.queue.submit and its flip of useTextureA.
Idle == [frame |-> "idle", stamp |-> "idle"]

\* A handler that gives up the thread between its submit and its flip, as an
\* await there would make it do.
HandlerMayStart_Always == TRUE

\* frame and handleStampClick are synchronous functions with no await and no
\* callback between device.queue.submit and the flip, and the browser starts
\* a task only when no task is running: a handler starts only when none is
\* past its submit and before its flip.
HandlerMayStart == pc = Idle

\* A handler taken as a whole: it starts when it may and runs to its end.
Step == /\ steps < MaxSteps
        /\ steps' = steps + 1
        /\ HandlerMayStart
        /\ pc' = pc

\* A handler other than the frame callback: it does not read the clock.
Event == /\ Step
         /\ then' = then

\* -------------------------------------------------------- uploadData ----
\* new Float32Array(gridSize * gridSize), filled with 0.0.  Element k of a
\* Float32Array is element k + 1 of the sequence.
blankData(size) == [k \in 1 .. size * size |-> 0]

\* writeTexture that takes the elements column by column.
writeTexture_ColumnMajor(data, size) ==
  [c \in Cells(size) |-> data[c[1] * size + c[2] + 1]]

\* device.queue.writeTexture(texture, data, {bytesPerRow: gridSize * 4},
\* {width: gridSize, height: gridSize}): row y of the texture is the
\* gridSize elements from y * gridSize on.
writeTexture(data, size) ==
  [c \in Cells(size) |-> data[c[2] * size + c[1] + 1]]

\* writeTexture into textureA and textureB, generation = 0, useTextureA = true.
\* size is gridSize as uploadData finds it.
\* uploadData without generation = 0.
uploadData_KeepsGeneration(data, size) ==
  /\ textureA' = writeTexture(data, size)
  /\ textureB' = writeTexture(data, size)
  /\ generation' = generation
  /\ useTextureA' = TRUE

uploadData(data, size) ==
  /\ textureA' = writeTexture(data, size)
  /\ textureB' = writeTexture(data, size)
  /\ generation' = 0
  /\ useTextureA' = TRUE

\* ------------------------------------------- initSimulationResources ----
\* initSimulationResources whose history textures keep the old values of
\* the cells they had before.
initSimulationResources_KeepsTrails(size) ==
  /\ gridSize' = size
  /\ historyTextureA' = [c \in Cells(size) |->
                           IF c \in DOMAIN historyTextureA THEN historyTextureA[c] ELSE 0]
  /\ historyTextureB' = [c \in Cells(size) |->
                           IF c \in DOMAIN historyTextureB THEN historyTextureB[c] ELSE 0]
  /\ uploadData(blankData(size), size)

initSimulationResources(size) ==
  /\ gridSize' = size
  /\ historyTextureA' = [c \in Cells(size) |-> 0]
  /\ historyTextureB' = [c \in Cells(size) |-> 0]
  /\ uploadData(blankData(size), size)

\* The state after construction, the zoom and the step count aside.
Constructed ==
  /\ pc = Idle
  /\ gridSize = InitialGridSize
  /\ textureA = BlankGrid(InitialGridSize)
  /\ textureB = BlankGrid(InitialGridSize)
  /\ historyTextureA = [c \in Cells(InitialGridSize) |-> 0]
  /\ historyTextureB = [c \in Cells(InitialGridSize) |-> 0]
  /\ useTextureA = TRUE
  /\ generation = 0
  /\ isPlaying = FALSE
  /\ fpsInterval = Interval(12)
  /\ then = Clock(0)
  /\ panX = 0 /\ panY = 0
  /\ trailsActive = FALSE /\ decayValue = (9 * FP) \div 10
  /\ palette = SystemPalette
  /\ isStampActive = FALSE /\ currentPatternIndex = 0
  /\ isDragging = FALSE /\ lastMouseX = 0 /\ lastMouseY = 0
  /\ pendingFrames = 1
  /\ lastOp = [kind |-> "init", prev |-> BlankGrid(InitialGridSize),
               before |-> BlankGrid(InitialGridSize),
               other |-> BlankGrid(InitialGridSize),
               out |-> BlankGrid(InitialGridSize), gen |-> 0,
               flag |-> TRUE, arg |-> NoArg, bound |-> NoPass, trail |-> "B",
               run |-> NoRun, pace |-> <<>>, special |-> SpecialAt(textureA),
               was |-> NoWas]

Init ==
  /\ Constructed
  /\ zoom = FP
  /\ viewUniformBuffer = ViewUniforms(panX, panY, zoom)
  /\ steps = 0

\* ------------------------------------------------------------- frame ----
\* One run of the frame callback, gap milliseconds after the latest one.
\* time10 is the time uniform (now / 1000) times 10.
\* flips: whether the run goes on to if (isPlaying) useTextureA = !useTextureA.
framePasses(gap, time10, flips) ==
  /\ pendingFrames > 0
  /\ pendingFrames' = pendingFrames - 1 + 1
  /\ UNCHANGED <<gridSize, viewVars, settingVars>>
  /\ then' = IF isPlaying /\ ~ElapsedBelow(ElapsedSince(gap * ClockUnit, then),
                                            fpsInterval)
               THEN ThenAfterTick(ElapsedSince(gap * ClockUnit, then), fpsInterval)
               ELSE ThenShifted(gap * ClockUnit, then)
  /\ IF isPlaying /\ ElapsedBelow(ElapsedSince(gap * ClockUnit, then), fpsInterval)
       THEN /\ UNCHANGED <<textureA, textureB, historyTextureA, historyTextureB,
                           useTextureA, generation>>
            /\ lastOp' = Op("skip", lastOp.out, lastOp.out,
                            [NoArg EXCEPT !.gap = gap], NoPass)
     ELSE IF isPlaying
       THEN LET n    == CeilDiv(gridSize, WORKGROUP_SIZE)
                cbg  == IF useTextureA THEN computeBindGroupA ELSE computeBindGroupB
                hbg  == IF useTextureA THEN historyBindGroupB ELSE historyBindGroupA
                rbg  == textureToRender(isPlaying, useTextureA)
                tex(name)  == IF name = "A" THEN textureA ELSE textureB
                hist(name) == IF name = "A" THEN historyTextureA ELSE historyTextureB
                computed == computeMain(tex(cbg.cellStateIn), tex(cbg.cellStateOut),
                                        gridSize, n, n, time10)
                texA1 == IF cbg.cellStateOut = "A" THEN computed ELSE textureA
                texB1 == IF cbg.cellStateOut = "B" THEN computed ELSE textureB
                tex1(name) == IF name = "A" THEN texA1 ELSE texB1
                trailed == historyMain(tex1(hbg.cellStateIn), hist(hbg.historyIn),
                                       hist(hbg.historyOut), gridSize, n, n,
                                       decayValue, trailsActive)
            IN  /\ generation' = generation + 1
                /\ textureA' = texA1
                /\ textureB' = texB1
                /\ historyTextureA' = IF hbg.historyOut = "A" THEN trailed
                                      ELSE historyTextureA
                /\ historyTextureB' = IF hbg.historyOut = "B" THEN trailed
                                      ELSE historyTextureB
                /\ useTextureA' = IF flips THEN ~useTextureA ELSE useTextureA
                /\ lastOp' = Op("tick", lastOp.out, computed,
                                [NoArg EXCEPT !.time10 = time10, !.gap = gap],
                                [cellStateIn |-> cbg.cellStateIn,
                                 cellStateOut |-> cbg.cellStateOut,
                                 historyIn |-> hbg.historyIn,
                                 historyOut |-> hbg.historyOut,
                                 cellTexture |-> rbg.cellTexture,
                                 historyTexture |-> rbg.historyTexture])
       ELSE LET rbg == textureToRender(isPlaying, useTextureA)
            IN  /\ UNCHANGED <<textureA, textureB, historyTextureA, historyTextureB,
                               useTextureA, generation>>
                /\ lastOp' = Op("render", lastOp.out, lastOp.out,
                                [NoArg EXCEPT !.gap = gap],
                                [NoPass EXCEPT !.cellTexture = rbg.cellTexture,
                                               !.historyTexture = rbg.historyTexture])

frame(gap, time10) ==
  /\ Step
  /\ framePasses(gap, time10, TRUE)

\* --------------------------------------------------- handleStampClick ----
\* Everything handleStampClick does once pos is known: the uniform and pattern
\* uploads, copyTextureToTexture(src, dst), the stamp pass and, when flips,
\* the flag flip.
stampPasses(pos, flips) ==
  LET pattern == patterns[currentPatternIndex + 1]
      src     == IF useTextureA THEN textureA ELSE textureB
      sbg     == IF useTextureA THEN stampBindGroupA ELSE stampBindGroupB
      texA1   == IF useTextureA THEN textureA ELSE src
      texB1   == IF useTextureA THEN src ELSE textureB
      tex1(name) == IF name = "A" THEN texA1 ELSE texB1
      stamped == stampMain(tex1(sbg.cellStateIn), tex1(sbg.cellStateOut), gridSize,
                           pos, pattern,
                           CeilDiv(pattern.w, WORKGROUP_SIZE),
                           CeilDiv(pattern.h, WORKGROUP_SIZE))
  IN  /\ textureA' = IF sbg.cellStateOut = "A" THEN stamped ELSE texA1
      /\ textureB' = IF sbg.cellStateOut = "B" THEN stamped ELSE texB1
      /\ useTextureA' = IF flips THEN ~useTextureA ELSE useTextureA
      /\ RequestFrameIfPaused
      /\ lastOp' = Op("stamp", lastOp.out, stamped,
                      [NoArg EXCEPT !.pos = pos, !.pattern = currentPatternIndex],
                      [NoPass EXCEPT !.cellStateIn = sbg.cellStateIn,
                                     !.cellStateOut = sbg.cellStateOut])
      /\ UNCHANGED <<gridSize, historyTextureA, historyTextureB, generation>>

\* stampPass without copyTextureToTexture: the pass patches whatever the
\* destination texture already holds.
stampPass_NoCopy(pos) ==
  LET pattern == patterns[currentPatternIndex + 1]
      sbg     == IF useTextureA THEN stampBindGroupA ELSE stampBindGroupB
      tex(name) == IF name = "A" THEN textureA ELSE textureB
      stamped == stampMain(tex(sbg.cellStateIn), tex(sbg.cellStateOut), gridSize,
                           pos, pattern,
                           CeilDiv(pattern.w, WORKGROUP_SIZE),
                           CeilDiv(pattern.h, WORKGROUP_SIZE))
  IN  /\ textureA' = IF sbg.cellStateOut = "A" THEN stamped ELSE textureA
      /\ textureB' = IF sbg.cellStateOut = "B" THEN stamped ELSE textureB
      /\ useTextureA' = ~useTextureA
      /\ RequestFrameIfPaused
      /\ lastOp' = Op("stamp", lastOp.out, stamped,
                      [NoArg EXCEPT !.pos = pos, !.pattern = currentPatternIndex],
                      [NoPass EXCEPT !.cellStateIn = sbg.cellStateIn,
                                     !.cellStateOut = sbg.cellStateOut])
      /\ UNCHANGED <<gridSize, historyTextureA, historyTextureB, generation>>

\* stampPass without the flip of useTextureA: the stamped texture is never
\* the one the next pass reads.
stampPass_NoFlip(pos) ==
  LET pattern == patterns[currentPatternIndex + 1]
      src     == IF useTextureA THEN textureA ELSE textureB
      sbg     == IF useTextureA THEN stampBindGroupA ELSE stampBindGroupB
      texA1   == IF useTextureA THEN textureA ELSE src
      texB1   == IF useTextureA THEN src ELSE textureB
      tex1(name) == IF name = "A" THEN texA1 ELSE texB1
      stamped == stampMain(tex1(sbg.cellStateIn), tex1(sbg.cellStateOut), gridSize,
                           pos, pattern,
                           CeilDiv(pattern.w, WORKGROUP_SIZE),
                           CeilDiv(pattern.h, WORKGROUP_SIZE))
  IN  /\ textureA' = IF sbg.cellStateOut = "A" THEN stamped ELSE texA1
      /\ textureB' = IF sbg.cellStateOut = "B" THEN stamped ELSE texB1
      /\ useTextureA' = useTextureA
      /\ RequestFrameIfPaused
      /\ lastOp' = Op("stamp", lastOp.out, stamped,
                      [NoArg EXCEPT !.pos = pos, !.pattern = currentPatternIndex],
                      [NoPass EXCEPT !.cellStateIn = sbg.cellStateIn,
                                     !.cellStateOut = sbg.cellStateOut])
      /\ UNCHANGED <<gridSize, historyTextureA, historyTextureB, generation>>

\* handleStampClick once pos is known, run to its end.
stampPass(pos) == stampPasses(pos, TRUE)

handleStampClick(u, v) == stampPass(getGridPos(u, v))

\* overlayCanvas "mousedown": button 1 starts a pan drag, button 0 stamps
\* when the stamp tool is on.
mousedown(button, u, v) ==
  /\ Event
  /\ UNCHANGED <<zoom, panX, panY, viewUniformBuffer, settingVars>>
  /\ IF button = 1
       THEN /\ isDragging' = TRUE
            /\ lastMouseX' = u
            /\ lastMouseY' = v
            /\ lastOp' = Quiet("mousedown")
            /\ UNCHANGED <<gridVars, pendingFrames>>
     ELSE IF button = 0 /\ isStampActive
       THEN /\ handleStampClick(u, v)
            /\ UNCHANGED <<isDragging, lastMouseX, lastMouseY>>
       ELSE /\ lastOp' = Quiet("mousedown")
            /\ UNCHANGED <<gridVars, pendingFrames, isDragging, lastMouseX, lastMouseY>>

\* PanDelta without the division by zoom.
PanDelta_Unscaled(d, z) == d

\* dx / rect.width / zoom, for d = dx / rect.width.
PanDelta(d, z) == (d * FP) \div z

\* window "mousemove": a pan drag moves the offset.  The ghost record keeps
\* the pointer of the latest mouse event and the pan at entry.
mousemove(u, v) ==
  /\ Event
  /\ UNCHANGED <<gridVars, settingVars, zoom, isDragging>>
  /\ lastOp' = Op("mousemove", lastOp.out, lastOp.out,
                  [NoArg EXCEPT !.pivot = <<lastMouseX, lastMouseY>>,
                                !.pan = <<panX, panY>>], NoPass)
  /\ IF isDragging
       THEN /\ panX' = panX + PanDelta(u - lastMouseX, zoom)
            /\ panY' = panY + PanDelta(v - lastMouseY, zoom)
            /\ updateViewUniforms
            /\ lastMouseX' = u
            /\ lastMouseY' = v
            /\ RequestFrameIfPaused
       ELSE UNCHANGED <<panX, panY, viewUniformBuffer, lastMouseX, lastMouseY,
                        pendingFrames>>

mouseup ==
  /\ Event
  /\ isDragging' = FALSE
  /\ lastOp' = Quiet("mouseup")
  /\ UNCHANGED <<gridVars, settingVars, zoom, panX, panY, viewUniformBuffer,
                 lastMouseX, lastMouseY, pendingFrames>>

\* newZoom = e.deltaY < 0 ? zoom * zoomFactor : zoom / zoomFactor, with
\* zoomFactor = 1.1
ZoomStep(z, deltaYNegative) ==
  IF deltaYNegative THEN (z * 11) \div 10 ELSE (z * 10) \div 11

\* The guard with 0.25 as its lower limit.
ZoomOutOfRange_LowFloor(newZoom) == 4 * newZoom < FP \/ newZoom > 50 * FP

\* if (newZoom < 0.5 || newZoom > 50.0) return;
ZoomOutOfRange(newZoom) == 2 * newZoom < FP \/ newZoom > 50 * FP

\* The pan assignment with the two quotients exchanged.
ZoomPan_Exchanged(mouse, newZoom, oldZoom, pan) ==
  ((mouse * FP) \div oldZoom) - ((mouse * FP) \div newZoom) + pan

\* panX = (mouseU / newZoom) - (mouseU / zoom) + panX
ZoomPan(mouse, newZoom, oldZoom, pan) ==
  ((mouse * FP) \div newZoom) - ((mouse * FP) \div oldZoom) + pan

\* The wheel listener with the new zoom moved to the nearest limit instead
\* of the return.
wheel_Clamps(u, v, deltaYNegative) ==
  LET stepped == ZoomStep(zoom, deltaYNegative)
      newZoom == IF 2 * stepped < FP THEN FP \div 2
                 ELSE IF stepped > 50 * FP THEN 50 * FP
                 ELSE stepped
  IN  /\ Event
      /\ UNCHANGED <<gridVars, settingVars, isDragging, lastMouseX, lastMouseY>>
      /\ lastOp' = Op("wheel", lastOp.out, lastOp.out,
                      [NoArg EXCEPT !.pivot = <<u, v>>, !.pos = getGridPos(u, v),
                                    !.value = zoom, !.pan = <<panX, panY>>,
                                    !.deltaYNegative = deltaYNegative], NoPass)
      /\ panX' = ZoomPan(u, newZoom, zoom, panX)
      /\ panY' = ZoomPan(v, newZoom, zoom, panY)
      /\ zoom' = newZoom
      /\ updateViewUniforms
      /\ RequestFrameIfPaused

\* overlayCanvas "wheel": zoom about the pointer.  The ghost record keeps
\* the pointer, the cell getGridPos gave for it, the sign of deltaY and the
\* zoom and the pan at entry.
wheel(u, v, deltaYNegative) ==
  LET newZoom == ZoomStep(zoom, deltaYNegative)
  IN  /\ Event
      /\ UNCHANGED <<gridVars, settingVars, isDragging, lastMouseX, lastMouseY>>
      /\ lastOp' = Op("wheel", lastOp.out, lastOp.out,
                      [NoArg EXCEPT !.pivot = <<u, v>>, !.pos = getGridPos(u, v),
                                    !.value = zoom, !.pan = <<panX, panY>>,
                                    !.deltaYNegative = deltaYNegative], NoPass)
      /\ IF ZoomOutOfRange(newZoom)
           THEN UNCHANGED <<zoom, panX, panY, viewUniformBuffer, pendingFrames>>
           ELSE /\ panX' = ZoomPan(u, newZoom, zoom, panX)
                /\ panY' = ZoomPan(v, newZoom, zoom, panY)
                /\ zoom' = newZoom
                /\ updateViewUniforms
                /\ RequestFrameIfPaused

\* ------------------------------------------------- control handlers ----
\* A play/pause click whose listener runs although a handler is between its
\* submit and its flip.
playPause_Preempts ==
  /\ steps < MaxSteps
  /\ steps' = steps + 1
  /\ pc' = pc
  /\ then' = then
  /\ isPlaying' = ~isPlaying
  /\ lastOp' = Quiet("playPause")
  /\ UNCHANGED <<gridVars, viewVars, fpsInterval, trailsActive, decayValue, palette,
                 isStampActive, currentPatternIndex, pendingFrames>>

playPause ==
  /\ Event
  /\ isPlaying' = ~isPlaying
  /\ lastOp' = Quiet("playPause")
  /\ UNCHANGED <<gridVars, viewVars, fpsInterval, trailsActive, decayValue, palette,
                 isStampActive, currentPatternIndex, pendingFrames>>

stampToggle ==
  /\ Event
  /\ isStampActive' = ~isStampActive
  /\ lastOp' = Quiet("stampToggle")
  /\ UNCHANGED <<gridVars, viewVars, isPlaying, fpsInterval, trailsActive, decayValue,
                 palette, currentPatternIndex, pendingFrames>>

\* A pattern button's "click".
selectPattern(index) ==
  /\ Event
  /\ currentPatternIndex' = index
  /\ lastOp' = Quiet("selectPattern")
  /\ UNCHANGED <<gridVars, viewVars, isPlaying, fpsInterval, trailsActive, decayValue,
                 palette, isStampActive, pendingFrames>>

trailsToggle(checked) ==
  /\ Event
  /\ trailsActive' = checked
  /\ lastOp' = Quiet("trailsToggle")
  /\ UNCHANGED <<gridVars, viewVars, isPlaying, fpsInterval, decayValue, palette,
                 isStampActive, currentPatternIndex, pendingFrames>>

\* decayRange "input": decayValue = parseFloat(e.target.value)
decayInput(value) ==
  /\ Event
  /\ decayValue' = value
  /\ lastOp' = Op("decayInput", lastOp.out, lastOp.out,
                  [NoArg EXCEPT !.value = value], NoPass)
  /\ UNCHANGED <<gridVars, viewVars, isPlaying, fpsInterval, trailsActive, palette,
                 isStampActive, currentPatternIndex, pendingFrames>>

\* handleColorChange and the system preset button: updatePalette(...)
handleColorChange(colors) ==
  /\ Event
  /\ palette' = colors
  /\ lastOp' = Quiet("palette")
  /\ UNCHANGED <<gridVars, viewVars, isPlaying, fpsInterval, trailsActive, decayValue,
                 isStampActive, currentPatternIndex, pendingFrames>>

\* fpsCapInput "change"; val is parseInt of the text, nan when it is NaN.
\* The listener without if (val > 144) val = 144.
fpsCapChange_NoCeiling(val, nan) ==
  LET v1 == IF val < 1 THEN 1 ELSE val
  IN  /\ Event
      /\ fpsInterval' = IF nan THEN NaNInterval ELSE Interval(v1)
      /\ lastOp' = Op(IF nan THEN "fpsCapNaN" ELSE "fpsCap", lastOp.out, lastOp.out,
                      [NoArg EXCEPT !.value = val], NoPass)
      /\ UNCHANGED <<gridVars, viewVars, isPlaying, trailsActive, decayValue, palette,
                     isStampActive, currentPatternIndex, pendingFrames>>

\* val is parseInt(e.target.value) when that is a number; nan says that it
\* is NaN.  The ghost record keeps val and, in its kind, whether it was NaN.
fpsCapChange(val, nan) ==
  LET v1 == IF val < 1 THEN 1 ELSE val
      v2 == IF v1 > 144 THEN 144 ELSE v1
  IN  /\ Event
      /\ fpsInterval' = IF nan THEN NaNInterval ELSE Interval(v2)
      /\ lastOp' = Op(IF nan THEN "fpsCapNaN" ELSE "fpsCap", lastOp.out, lastOp.out,
                      [NoArg EXCEPT !.value = val], NoPass)
      /\ UNCHANGED <<gridVars, viewVars, isPlaying, trailsActive, decayValue, palette,
                     isStampActive, currentPatternIndex, pendingFrames>>

\* gridSizeSelect "change"
gridSizeChange(newSize) ==
  /\ Event
  /\ initSimulationResources(newSize)
  /\ zoom' = FP /\ panX' = 0 /\ panY' = 0
  /\ updateViewUniforms
  /\ lastOp' = Op("resize", lastOp.out, BlankGrid(newSize), NoArg, NoPass)
  /\ UNCHANGED <<settingVars, isDragging, lastMouseX, lastMouseY, pendingFrames>>

\* ----------------------------------------------------- preset buttons ----
\* randomSoupBtn: each element is 1.0 or 0.0; three of the possible draws.
Soups(size) ==
  { [k \in 1 .. size * size |->
       IF (a * ((k - 1) % size) + b * ((k - 1) \div size)) % m = 0
         THEN Alive ELSE Dead] :
      <<a, b, m>> \in {<<1, 1, 2>>, <<1, 2, 3>>, <<1, 0, 1>>} }

crossData(size) ==
  LET mid == size \div 2
      hit == {mid * size + i : i \in 0 .. size - 1}
               \cup {i * size + mid : i \in 0 .. size - 1}
  IN  [k \in 1 .. size * size |-> IF k - 1 \in hit THEN Chaos ELSE Dead]

dotData(size) ==
  LET mid == size \div 2
      r   == 2
      hit == {y * size + x : x \in mid - r .. mid + r, y \in mid - r .. mid + r}
  IN  [k \in 1 .. size * size |-> IF k - 1 \in hit THEN Chaos ELSE Dead]

\* data[y * gridSize + x] for the x and y of the two loops.  Distances are
\* compared squared and scaled by 30 (mid = size/2, R = size/3,
\* r_dot = R/5), so that every quantity is an integer.
yinYangData(size) ==
  [k \in 1 .. size * size |->
     LET x   == (k - 1) % size
         y   == (k - 1) \div size
         dx  == 30 * x - 15 * size
         dy  == 30 * y - 15 * size
         R   == 10 * size
         top == dx * dx + (dy + 5 * size) * (dy + 5 * size)
         bot == dx * dx + (dy - 5 * size) * (dy - 5 * size)
     IN  IF dx * dx + dy * dy > R * R THEN Chaos
         ELSE IF top < (2 * size) * (2 * size) THEN AlwaysAlive
         ELSE IF bot < (2 * size) * (2 * size) THEN AlwaysDead
         ELSE IF top < (5 * size) * (5 * size) THEN Dead
         ELSE IF bot < (5 * size) * (5 * size) THEN Alive
         ELSE IF dx > 0 THEN Alive
         ELSE Dead]

\* A preset button: build data, then uploadData(data).
presetClick(kind, data) ==
  /\ Event
  /\ uploadData(data, gridSize)
  /\ lastOp' = Op(kind, lastOp.out, writeTexture(data, gridSize),
                  [NoArg EXCEPT !.data = data], NoPass)
  /\ UNCHANGED <<gridSize, historyTextureA, historyTextureB, viewVars, settingVars,
                 pendingFrames>>

\* The textures the presets load.
PresetGrids(size) ==
  {writeTexture(d, size) : d \in {yinYangData(size), crossData(size)} \cup Soups(size)}

\* ------------------------------------------------------ specification ----
\* Milliseconds between two frame callbacks: three intervals of 1000 / 12 ms,
\* which a cap of 1 turns into skipped frames.
FrameGaps   == {250}
TimeSeeds   == {7}
Pointer     == {<<(9 * FP) \div 10, FP \div 2>>}
DecayInputs == {FP \div 2}
FpsInputs   == {<<1, FALSE>>, <<0, TRUE>>}

Next ==
  \/ \E g \in FrameGaps, t \in TimeSeeds : frame(g, t)
  \/ \E b \in {0, 1}, p \in Pointer : mousedown(b, p[1], p[2])
  \/ \E p \in Pointer : mousemove(p[1], p[2])
  \/ mouseup
  \/ \E p \in Pointer : wheel(p[1], p[2], TRUE)
  \/ playPause
  \/ stampToggle
  \/ \E i \in {1, Len(patterns) - 1} : selectPattern(i)
  \/ \E b \in BOOLEAN : trailsToggle(b)
  \/ \E d \in DecayInputs : decayInput(d)
  \/ handleColorChange(UserPalette)
  \/ \E f \in FpsInputs : fpsCapChange(f[1], f[2])
  \/ \E n \in GridSizes : gridSizeChange(n)
  \/ \E d \in Soups(gridSize) : presetClick("soup", d)
  \/ presetClick("cross", crossData(gridSize))
  \/ presetClick("dot", dotData(gridSize))
  \/ presetClick("yinYang", yinYangData(gridSize))

Spec == Init /\ [][Next]_vars

\* ------------------------------------------- kernels on chosen inputs ----
\* The passes as functions of their inputs: the state right after
\* uploadData(data) for data drawn from the families below, with the
\* simulation playing and the stamp tool on, followed by one tick or by one
\* stamp pass whose clickPos uniform is any of KernelAnchors (two passes in a
\* row on the inputs every catalog pattern is stamped on).

\* A size x size grid that is Dead outside the 3 x 3 block whose top-left
\* corner is (ox, oy), wrapped; block cell k (row-major, 0 .. 8) holds value(k).
BlockGrid(size, ox, oy, value(_)) ==
  [c \in Cells(size) |->
     LET bx == (c[1] - ox) % size
         by == (c[2] - oy) % size
     IN  IF bx < 3 /\ by < 3 THEN value(by * 3 + bx) ELSE Dead]

\* Every Dead/Alive filling of the block.
BitGrids(size, ox, oy) ==
  { LET value(k) == IF k \in bits THEN Alive ELSE Dead
    IN  BlockGrid(size, ox, oy, value) : bits \in SUBSET (0 .. 8) }

\* Any state in the centre, the neighbours cycling through the states.
MixedGrids(size, ox, oy) ==
  { LET value(k) == IF k = 4 THEN centre ELSE (k * m + r) % 5
    IN  BlockGrid(size, ox, oy, value) :
      centre \in CellStates, m \in 0 .. 2, r \in 0 .. 4 }

KernelInputs(size) ==
  IF size = InitialGridSize
    THEN BitGrids(size, 1, 1) \cup MixedGrids(size, 1, 1)
           \cup {BlankGrid(size)} \cup PresetGrids(size)
    ELSE BitGrids(size, size - 1, size - 1) \cup MixedGrids(size, size - 1, size - 1)
           \cup {BlankGrid(size)}

\* The inputs every catalog pattern is stamped on.
StampInputs(size) ==
  {BlankGrid(size)} \cup PresetGrids(size)

\* clickPos uniforms, negative ones and ones beyond the grid included: every
\* one within a turn of the grid and the farthest ones.
KernelAnchors(size) ==
  LET far  == MaxAnchorTurns * size + 1
      near == size + 1
      pick == {a \in (0 - far) .. far :
                 \/ (a >= 0 - near /\ a <= near)
                 \/ a <= 1 - far
                 \/ a >= far - 1}
  IN  {<<a, 2 - a>> : a \in pick}

KernelTimeSeeds == {0, 3, 7, 12}

\* The rest of the state once textureA holds the uploaded data, the trail
\* switch aside.
Loaded ==
  /\ pc = Idle
  /\ textureB = textureA
  /\ historyTextureA = [c \in Cells(gridSize) |-> 0]
  /\ historyTextureB = [c \in Cells(gridSize) |-> 0]
  /\ useTextureA = TRUE
  /\ generation = 0
  /\ isPlaying = TRUE
  /\ fpsInterval = Interval(12)
  /\ then = Clock(0)
  /\ zoom = FP /\ panX = 0 /\ panY = 0
  /\ viewUniformBuffer = ViewUniforms(panX, panY, zoom)
  /\ decayValue = (9 * FP) \div 10
  /\ palette = SystemPalette
  /\ isStampActive = TRUE
  /\ isDragging = FALSE /\ lastMouseX = 0 /\ lastMouseY = 0
  /\ pendingFrames = 1
  /\ lastOp = [kind |-> "load", prev |-> BlankGrid(gridSize),
               before |-> BlankGrid(gridSize),
               other |-> BlankGrid(gridSize), out |-> textureA,
               gen |-> 0, flag |-> TRUE, arg |-> NoArg, bound |-> NoPass,
               trail |-> "B", run |-> NoRun, pace |-> <<>>,
               special |-> SpecialAt(textureA), was |-> NoWas]

Uploaded ==
  /\ Loaded
  /\ trailsActive = FALSE

InitKernel ==
  /\ gridSize \in GridSizes
  /\ \/ /\ textureA \in KernelInputs(gridSize)
        /\ currentPatternIndex = 0
        /\ steps = MaxSteps - 1
     \/ /\ textureA \in StampInputs(gridSize)
        /\ currentPatternIndex \in 1 .. Len(patterns) - 1
        /\ steps = MaxSteps - 2
  /\ Uploaded

stampDispatch(pos) ==
  /\ Event
  /\ stampPass(pos)
  /\ UNCHANGED <<viewVars, settingVars>>

NextKernel ==
  \/ \E t \in KernelTimeSeeds : frame(250, t)
  \/ \E pos \in KernelAnchors(gridSize) : stampDispatch(pos)

SpecKernel == InitKernel /\ [][NextKernel]_vars

\* ------------------------------------------------ ticks on the torus ----
\* One tick of every grid of a family without Chaos whose block straddles
\* both seams of the torus.  rand is evaluated for Chaos neighbours only, so
\* the time seed plays no part in these ticks.

\* The neighbours cycle through the four states that are not Chaos.
QuadGrids(size, ox, oy) ==
  { LET states == <<Dead, Alive, AlwaysDead, AlwaysAlive>>
        value(k) == IF k = 4 THEN states[centre] ELSE states[((k * m + r) % 4) + 1]
    IN  BlockGrid(size, ox, oy, value) :
      centre \in 1 .. 4, m \in 0 .. 3, r \in 0 .. 3 }

TorusInputs(size) ==
  BitGrids(size, size - 1, size - 1) \cup QuadGrids(size, size - 1, size - 1)

TorusTimeSeeds == {7}

InitTorus ==
  /\ gridSize \in GridSizes
  /\ textureA \in TorusInputs(gridSize)
  /\ currentPatternIndex = 0
  /\ steps = MaxSteps - 1
  /\ Uploaded

NextTorus == \E t \in TorusTimeSeeds : frame(250, t)

SpecTorus == InitTorus /\ [][NextTorus]_vars

\* ------------------------------------------------------ trail tracker ----
\* The passes that touch the history textures, from a loaded grid with the
\* trail switch either way: ticks, stamps, the trail controls, a load and a
\* resize.
TrailInputs(size) ==
  {writeTexture(d, size) : d \in {yinYangData(size)} \cup Soups(size)}
TrailAnchors == {<<0, 0>>, <<2, 3>>, <<3, 2>>}
TrailTimeSeeds == {0, 7}
\* parseFloat(e.target.value) for "0.5", "1.5" and "-0.5".
TrailDecays == {FP \div 2, (3 * FP) \div 2, 0 - FP \div 2}

InitTrail ==
  /\ gridSize \in GridSizes
  /\ textureA \in TrailInputs(gridSize)
  /\ currentPatternIndex = 0
  /\ trailsActive \in BOOLEAN
  /\ steps = MaxSteps - 3
  /\ Loaded

NextTrail ==
  \/ \E t \in TrailTimeSeeds : frame(250, t)
  \/ \E pos \in TrailAnchors : stampDispatch(pos)
  \/ \E b \in BOOLEAN : trailsToggle(b)
  \/ \E d \in TrailDecays : decayInput(d)
  \/ \E n \in GridSizes : gridSizeChange(n)
  \/ presetClick("dot", dotData(gridSize))

SpecTrail == InitTrail /\ [][NextTrail]_vars

\* ------------------------------------------------------- view state ----
\* The zooms that wheel events at the canvas origin, which leave the pan at
\* 0, reach from 1.0 by going one way until the next step would be dropped.
RECURSIVE ZoomRun(_, _)
ZoomRun(z, deltaYNegative) ==
  LET next == ZoomStep(z, deltaYNegative)
  IN  IF ZoomOutOfRange(next) THEN {z} ELSE {z} \cup ZoomRun(next, deltaYNegative)

ZoomLadder == ZoomRun(FP, TRUE) \cup ZoomRun(FP, FALSE)

ViewPointers == {<<0, 0>>, <<(9 * FP) \div 10, FP \div 2>>, <<FP \div 3, FP - 1>>}

InitView ==
  /\ Constructed
  /\ zoom \in ZoomLadder
  /\ viewUniformBuffer = ViewUniforms(panX, panY, zoom)
  /\ steps = MaxSteps - 3

NextView ==
  \/ \E p \in ViewPointers, d \in BOOLEAN : wheel(p[1], p[2], d)
  \/ \E p \in ViewPointers : mousedown(1, p[1], p[2])
  \/ \E p \in ViewPointers : mousemove(p[1], p[2])
  \/ mouseup
  \/ \E n \in GridSizes : gridSizeChange(n)

SpecView == InitView /\ [][NextView]_vars

\* ------------------------------------------------------- tick-rate cap ----
\* The cap listener, play/pause and frames at several elapsed times, from
\* construction.
RateInputs  == {0 - 3, 0, 1, 12, 60, 144, 145, 1000}
RateElapsed == {1, 6, 7, 16, 17, 83, 84, 1000}

NextRate ==
  \/ \E v \in RateInputs : fpsCapChange(v, FALSE)
  \/ fpsCapChange(0, TRUE)
  \/ playPause
  \/ \E e \in RateElapsed : frame(e, 0)

SpecRate == Init /\ [][NextRate]_vars

\* ------------------------------------------- frames and stamp clicks ----
\* The frame callback and the stamp handler in two steps each: up to and
\* with device.queue.submit, then the flip of useTextureA.  The passes take
\* effect on the textures in the order of their submits.  A frame callback
\* that submitted a tick is at "submitted", one that submitted a render pass
\* alone is at "drawn".
frameSubmit(time10) ==
  /\ steps < MaxSteps
  /\ steps' = steps + 1
  /\ HandlerMayStart
  /\ ~(isPlaying /\ ElapsedBelow(ElapsedSince(250 * ClockUnit, then), fpsInterval))
  /\ framePasses(250, time10, FALSE)
  /\ pc' = [pc EXCEPT !.frame = IF isPlaying THEN "submitted" ELSE "drawn"]

\* if (isPlaying) useTextureA = !useTextureA, the end of the callback.
frameFlip ==
  /\ pc.frame # "idle"
  /\ useTextureA' = IF isPlaying THEN ~useTextureA ELSE useTextureA
  /\ pc' = [pc EXCEPT !.frame = "idle"]
  /\ UNCHANGED <<gridSize, textureA, textureB, historyTextureA, historyTextureB,
                 generation, viewVars, settingVars, then, pendingFrames, steps,
                 lastOp>>

stampSubmit(pos) ==
  /\ steps < MaxSteps
  /\ steps' = steps + 1
  /\ then' = then
  /\ HandlerMayStart
  /\ isStampActive
  /\ stampPasses(pos, FALSE)
  /\ pc' = [pc EXCEPT !.stamp = "submitted"]
  /\ UNCHANGED <<viewVars, settingVars>>

stampFlip ==
  /\ pc.stamp = "submitted"
  /\ useTextureA' = ~useTextureA
  /\ pc' = [pc EXCEPT !.stamp = "idle"]
  /\ UNCHANGED <<gridSize, textureA, textureB, historyTextureA, historyTextureB,
                 generation, viewVars, settingVars, then, pendingFrames, steps,
                 lastOp>>

LoopAnchors == {<<0, 0>>, <<2, 3>>, <<0 - 1, 4>>}

InitLoop ==
  /\ gridSize \in GridSizes
  /\ textureA \in PresetGrids(gridSize)
  /\ currentPatternIndex \in 0 .. Len(patterns) - 1
  /\ steps = MaxSteps - 3
  /\ Uploaded

NextLoop ==
  \/ \E t \in TimeSeeds : frameSubmit(t)
  \/ frameFlip
  \/ \E pos \in LoopAnchors : stampSubmit(pos)
  \/ stampFlip
  \/ playPause

SpecLoop == InitLoop /\ [][NextLoop]_vars

\* ----------------------------------------------------------- the clock ----
\* A loaded, playing grid, with frame callbacks 1, 84 or 250 ms apart
\* (84 ms is just over 1000 / 12), the cap listener and the play/pause
\* button.
ClockGaps   == {1, 84, 250}
ClockInputs == {12, 144}

InitClock ==
  /\ gridSize = 5
  /\ textureA = writeTexture(yinYangData(gridSize), gridSize)
  /\ currentPatternIndex = 0
  /\ steps = MaxSteps - 5
  /\ Uploaded

NextClock ==
  \/ \E g \in ClockGaps : frame(g, 0)
  \/ \E v \in ClockInputs : fpsCapChange(v, FALSE)
  \/ fpsCapChange(0, TRUE)
  \/ playPause

SpecClock == InitClock /\ [][NextClock]_vars

\* =============================================================== claims ====
\* What the claims are stated with: the current grid the last handler found
\* (lastOp.before), what the other texture held then (lastOp.other), the
\* grid the handler before it left (lastOp.prev), the grid it left
\* (lastOp.out) and the textures.
Ticked  == lastOp.kind = "tick"
Stamped == lastOp.kind = "stamp"
Before  == lastOp.before
TickTime == lastOp.arg.time10
Plain(v)   == v \in {Dead, Alive}
Special(v) == v \in {Chaos, AlwaysDead, AlwaysAlive}

\* The eight cells around c on the torus, by floored modulo.
Around(c, size) ==
  {<<(c[1] + i) % size, (c[2] + j) % size>> :
     <<i, j>> \in ((-1 .. 1) \X (-1 .. 1)) \ {<<0, 0>>}}

Survive == {3, 4, 6, 7, 8}
Born    == {3, 6, 7, 8}

\* C1: a tick turns an Alive cell with activeNeighbors = n into Alive iff n is
\* in {3,4,6,7,8} and a Dead cell into Alive iff n is in {3,6,7,8}; otherwise
\* the cell is Dead after the tick.
C1_DayNightRule ==
  Ticked =>
    \A c \in Cells(gridSize) :
      Plain(Before[c]) =>
        LET n == activeNeighbors(Before, gridSize, gridSize, c[1], c[2], TickTime)
        IN  /\ n \in 0 .. 8
            /\ CurrentGrid[c] =
                 IF \/ Before[c] = Alive /\ n \in Survive
                    \/ Before[c] = Dead /\ n \in Born
                   THEN Alive ELSE Dead

\* An Alive cell with four active neighbours survived and a Dead cell with
\* four active neighbours stayed Dead, in one tick.
C1_Witness ==
  /\ Ticked
  /\ \E c, d \in Cells(gridSize) :
       /\ Before[c] = Alive /\ Before[d] = Dead
       /\ activeNeighbors(Before, gridSize, gridSize, c[1], c[2], TickTime) = 4
       /\ activeNeighbors(Before, gridSize, gridSize, d[1], d[2], TickTime) = 4
       /\ CurrentGrid[c] = Alive /\ CurrentGrid[d] = Dead

\* C2: a tick writes, for every cell that is Chaos, AlwaysDead or AlwaysAlive,
\* that same state, whatever the neighbourhood and the time seed.
C2_SpecialFixed ==
  Ticked =>
    \A c \in Cells(gridSize) : Special(Before[c]) => CurrentGrid[c] = Before[c]

\* A tick with a non-zero time seed over a grid that holds all three special
\* states, each with an Alive neighbour.
C2_Witness ==
  /\ Ticked
  /\ TickTime # 0
  /\ \A v \in {Chaos, AlwaysDead, AlwaysAlive} :
       \E c \in Cells(gridSize) :
         /\ Before[c] = v
         /\ \E n \in Around(c, gridSize) : Before[n] = Alive

\* C3: activeNeighbors of a Dead or Alive cell sums, over exactly its eight
\* wrapped neighbours and not the cell, 1 for Alive, 1 for AlwaysAlive, 0 for
\* Dead, 0 for AlwaysDead and 0 or 1 for Chaos; so it lies in 0 .. 8.
C3_ActiveNeighbors ==
  Ticked =>
    \A c \in Cells(gridSize) :
      Plain(Before[c]) =>
        LET nbrs  == Around(c, gridSize)
            sure  == Cardinality({n \in nbrs : Before[n] \in {Alive, AlwaysAlive}})
            maybe == Cardinality({n \in nbrs : Before[n] = Chaos})
            an    == activeNeighbors(Before, gridSize, gridSize, c[1], c[2], TickTime)
        IN  /\ Cardinality(nbrs) = 8
            /\ c \notin nbrs
            /\ sure <= an /\ an <= sure + maybe
            /\ 0 <= an /\ an <= 8

\* A cell whose Chaos neighbours added some but not all of their ones, next to
\* AlwaysDead and AlwaysAlive neighbours.
C3_Witness ==
  /\ Ticked
  /\ \E c \in Cells(gridSize) :
       LET nbrs  == Around(c, gridSize)
           sure  == Cardinality({n \in nbrs : Before[n] \in {Alive, AlwaysAlive}})
           maybe == Cardinality({n \in nbrs : Before[n] = Chaos})
           an    == activeNeighbors(Before, gridSize, gridSize, c[1], c[2], TickTime)
       IN  /\ Plain(Before[c])
           /\ sure < an /\ an < sure + maybe
           /\ \E n \in nbrs : Before[n] = AlwaysDead
           /\ \E n \in nbrs : Before[n] = AlwaysAlive

\* The grid g moved by d on the torus: the cell at c goes to c + d.
Shift(g, d, size) ==
  [c \in Cells(size) |-> g[<<(c[1] - d[1]) % size, (c[2] - d[2]) % size>>]]

NoChaos(g) == \A c \in DOMAIN g : g[c] # Chaos

\* C4: for a grid without Chaos cells and every shift (dx, dy), shifting the
\* grid on the torus and then ticking gives the grid that ticking and then
\* shifting gives.
C4_TranslationInvariant ==
  (Ticked /\ NoChaos(Before)) =>
    \A d \in Cells(gridSize) :
      LET shifted == Shift(Before, d, gridSize)
          groups  == CeilDiv(gridSize, WORKGROUP_SIZE)
      IN  computeMain(shifted, shifted, gridSize, groups, groups, TickTime)
            = Shift(CurrentGrid, d, gridSize)

\* A Dead cell in column 0 was born from three Alive cells that are all in
\* column width - 1, on a grid without Chaos.
C4_Witness ==
  /\ Ticked
  /\ NoChaos(Before)
  /\ \E c \in Cells(gridSize) :
       /\ c[1] = 0
       /\ Before[c] = Dead /\ CurrentGrid[c] = Alive
       /\ \A n \in Cells(gridSize) :
            Before[n] # Dead => n[1] = gridSize - 1 /\ Before[n] = Alive
       /\ Cardinality({n \in Around(c, gridSize) : Before[n] = Alive}) = 3

\* The pattern and the clickPos of the last stamp pass.
StampPattern == patterns[lastOp.arg.pattern + 1]
StampPos == lastOp.arg.pos

\* The (px, py) of a pattern whose row-major value is 1.
SetBits(pattern) ==
  {p \in (0 .. pattern.w - 1) \X (0 .. pattern.h - 1) :
     pattern.data[p[2] * pattern.w + p[1] + 1] = 1}

\* (C + (px, py)) mod (width, height), by floored modulo, over the set bits.
StampTargets ==
  {<<(StampPos[1] + p[1]) % gridSize, (StampPos[2] + p[2]) % gridSize>> :
     p \in SetBits(StampPattern)}

\* C5: stamping a catalog pattern at an anchor on an all-Dead grid leaves a
\* current grid where a cell is Alive iff it is the wrapped target of a set
\* bit of the pattern, and every other cell is Dead.
C5_StampOnBlank ==
  (Stamped /\ Before = BlankGrid(gridSize)) =>
    \A c \in Cells(gridSize) :
      CurrentGrid[c] = IF c \in StampTargets THEN Alive ELSE Dead

\* The Rocket was stamped on an all-Dead grid at a negative anchor, and a
\* cell inside its box whose bit is 0 is Dead.
C5_Witness ==
  /\ Stamped
  /\ Before = BlankGrid(gridSize)
  /\ StampPattern.name = "Rocket (Placeholder)"
  /\ StampPos[1] < 0
  /\ Cardinality({c \in Cells(gridSize) : CurrentGrid[c] = Alive})
       = Cardinality(SetBits(StampPattern))
  /\ Cardinality(SetBits(StampPattern)) < StampPattern.w * StampPattern.h

\* C6: a stamp maps the value of every cell targeted by a set pattern bit by
\* Dead -> Alive, Alive -> Dead, AlwaysDead -> AlwaysAlive,
\* AlwaysAlive -> AlwaysDead, and leaves Chaos as Chaos.
C6_FlipTable ==
  Stamped =>
    \A c \in StampTargets :
      CurrentGrid[c] = CASE Before[c] = Dead        -> Alive
                         [] Before[c] = Alive       -> Dead
                         [] Before[c] = AlwaysDead  -> AlwaysAlive
                         [] Before[c] = AlwaysAlive -> AlwaysDead
                         [] Before[c] = Chaos       -> Chaos

\* One stamp whose targets held all five states.
C6_Witness ==
  /\ Stamped
  /\ {Before[c] : c \in StampTargets} = CellStates

\* C7: after a stamp every cell that is not the wrapped target of a set
\* pattern bit has, in the buffer that becomes current, the value it had in
\* the current buffer before the stamp.
C7_RestPreserved ==
  Stamped =>
    \A c \in Cells(gridSize) \ StampTargets : CurrentGrid[c] = Before[c]

\* A stamp that followed a tick, so that its destination buffer held an
\* older grid: an untargeted cell differs between the two buffers before the
\* stamp, and an untargeted cell is not Dead.
C7_Witness ==
  /\ Stamped
  /\ lastOp.gen = 1
  /\ \E c \in Cells(gridSize) \ StampTargets : Before[c] # Dead
  /\ \E c \in Cells(gridSize) \ StampTargets :
       Before[c] # lastOp.other[c]

\* C8: for every anchor, negative ones included, and every pattern offset,
\* the stamp's target coordinate lies in [0, width) x [0, height) and is
\* congruent to anchor + (px, py) modulo (width, height).
C8_TargetInRange ==
  Stamped =>
    \A p \in (0 .. StampPattern.w - 1) \X (0 .. StampPattern.h - 1) :
      LET gx == StampCoord(StampPos[1], p[1], gridSize)
          gy == StampCoord(StampPos[2], p[2], gridSize)
      IN  /\ gx \in 0 .. gridSize - 1
          /\ gy \in 0 .. gridSize - 1
          /\ (gx - (StampPos[1] + p[1])) % gridSize = 0
          /\ (gy - (StampPos[2] + p[2])) % gridSize = 0

\* A stamp whose anchor is more than a grid width left of column 0 and more
\* than a grid height below the last row, with an offset whose sum with the
\* anchor is negative and not a multiple of the width.
C8_Witness ==
  /\ Stamped
  /\ StampPos[1] < 0 - gridSize
  /\ StampPos[2] > 2 * gridSize
  /\ \E px \in 0 .. StampPattern.w - 1 :
       /\ StampPos[1] + px < 0
       /\ TruncRem(StampPos[1] + px, gridSize) < 0

\* The kinds of handler that load a grid, and the ones the counter must
\* not move for.
LoadKinds == {"soup", "cross", "dot", "yinYang"}
CounterKeepers ==
  {"stamp", "wheel", "mousedown", "mousemove", "mouseup", "palette",
   "trailsToggle", "decayInput"}

\* C9: generation grows by exactly one in a handler that dispatches a tick,
\* is left alone by stamps, zooms, pans, palette changes and trail settings,
\* and otherwise changes only by being set to 0 by a load or a resize.
C9_GenerationCounter ==
  /\ Ticked => generation = lastOp.gen + 1
  /\ lastOp.kind \in CounterKeepers => generation = lastOp.gen
  /\ lastOp.kind \in LoadKinds \cup {"resize"} => generation = 0
  /\ generation # lastOp.gen => lastOp.kind \in {"tick", "resize"} \cup LoadKinds

\* The second tick in a row took the counter from 1 to 2.
C9_Witness ==
  /\ Ticked
  /\ lastOp.gen = 1
  /\ generation = 2

\* The workgroup counts of a tick and of the last stamp.
TickGroups == CeilDiv(gridSize, WORKGROUP_SIZE)

\* C10: the current grid is the one the last handler left; every handler
\* found as current grid the one the handler before it left; a tick left the
\* transition rule applied to that grid and a stamp left that grid patched.
C10_DerivesFromPreceding ==
  /\ CurrentGrid = lastOp.out
  /\ lastOp.before = lastOp.prev
  /\ Ticked =>
       lastOp.out = computeMain(lastOp.prev, lastOp.prev, gridSize,
                                TickGroups, TickGroups, TickTime)
  /\ Stamped =>
       lastOp.out = stampMain(lastOp.prev, lastOp.prev, gridSize, StampPos,
                              StampPattern,
                              CeilDiv(StampPattern.w, WORKGROUP_SIZE),
                              CeilDiv(StampPattern.h, WORKGROUP_SIZE))

\* The first tick after a load ran on a grid that a stamp had just changed,
\* while the other texture still held the grid from before the stamp, and the
\* tick changed the grid.
C10_Witness ==
  /\ Ticked
  /\ lastOp.gen = 0
  /\ lastOp.other # lastOp.before
  /\ CurrentGrid # lastOp.before

\* The history texture the last history pass wrote, and the one it read.
TrailWritten == IF lastOp.trail = "A" THEN historyTextureA ELSE historyTextureB
TrailRead    == IF lastOp.trail = "A" THEN historyTextureB ELSE historyTextureA

\* C11: the trail update of a tick writes, for every cell, 0 if trails are
\* disabled; otherwise 1.0 if the cell is Alive or AlwaysAlive in the grid
\* the tick left; otherwise the value it read for the cell times decay.
C11_TrailUpdate ==
  Ticked =>
    \A c \in Cells(gridSize) :
      TrailWritten[c] =
        IF ~trailsActive THEN 0
        ELSE IF CurrentGrid[c] \in {Alive, AlwaysAlive} THEN FP
        ELSE (TrailRead[c] * decayValue) \div FP

\* A tick with trails enabled that left a Dead cell with a trail decayed
\* from a positive value, an AlwaysAlive cell at 1.0, and Chaos and
\* AlwaysDead cells at 0.
C11_Witness ==
  /\ Ticked
  /\ trailsActive
  /\ \E c \in Cells(gridSize) :
       /\ CurrentGrid[c] = Dead
       /\ TrailRead[c] > 0
       /\ TrailWritten[c] > 0
       /\ TrailWritten[c] < TrailRead[c]
  /\ \E c \in Cells(gridSize) : CurrentGrid[c] = AlwaysAlive /\ TrailWritten[c] = FP
  /\ \E c \in Cells(gridSize) : CurrentGrid[c] = Chaos /\ TrailWritten[c] = 0
  /\ \E c \in Cells(gridSize) : CurrentGrid[c] = AlwaysDead /\ TrailWritten[c] = 0

RECURSIVE Gcd(_, _)
Gcd(a, b) == IF b = 0 THEN a ELSE Gcd(b, a % b)
RECURSIVE Pow(_, _)
Pow(b, k) == IF k = 0 THEN 1 ELSE b * Pow(b, k - 1)
Abs(a) == IF a < 0 THEN 0 - a ELSE a
Max(a, b) == IF a < b THEN b ELSE a

\* decayValue as a fraction in lowest terms.
DecayDen == FP \div Gcd(FP, Abs(decayValue))
DecayNum == decayValue \div Gcd(FP, Abs(decayValue))

C13_TrailsInUnit ==
  \A c \in Cells(gridSize) :
    /\ historyTextureA[c] >= 0 /\ historyTextureA[c] <= FP
    /\ historyTextureB[c] >= 0 /\ historyTextureB[c] <= FP

\* C16: after an assignment through the decay control the stored decay is
\* strictly between 0 and 1, whatever the control's value was.
C16_DecayClamped ==
  lastOp.kind = "decayInput" => (decayValue > 0 /\ decayValue < FP)

\* C14: a wheel event leaves the grid cell under its pointer unchanged:
\* getGridPos of the pointer after the zoom and pan assignments is the cell
\* it was before them.
C14_PivotFixed ==
  lastOp.kind = "wheel" =>
    getGridPos(lastOp.arg.pivot[1], lastOp.arg.pivot[2]) = lastOp.arg.pos

\* A wheel event away from the origin changed the zoom and the pan, on a
\* view that had been panned, with the pointer over a cell other than (0, 0).
C14_Witness ==
  /\ lastOp.kind = "wheel"
  /\ zoom # lastOp.arg.value
  /\ lastOp.arg.pivot[1] > 0 /\ lastOp.arg.pivot[2] > 0
  /\ lastOp.arg.pos[1] > 0 /\ lastOp.arg.pos[2] > 0
  /\ panX < 0 /\ panY > 0
  /\ getGridPos(0, 0) # <<0, 0>>

\* C15: the zoom stays within [0.5, 50.0] through wheel events, pan drags
\* and resizes.
C15_ZoomInRange ==
  /\ 2 * zoom >= FP
  /\ zoom <= 50 * FP

\* A wheel event at the low end of the range was dropped: the zoom is what
\* it was and one more step out would be below 0.5.
C15_Witness ==
  /\ lastOp.kind = "wheel"
  /\ zoom = lastOp.arg.value
  /\ 2 * ZoomStep(zoom, FALSE) < FP
  /\ zoom < FP

\* C17: after a load both state textures hold exactly the loaded data, with
\* cell (x, y) the element y * width + x, the generation counter is 0 and
\* textureA is current, whatever the textures, the counter and the flag
\* were before.
C17_LoadReplaces ==
  lastOp.kind \in LoadKinds =>
    /\ DOMAIN textureA = Cells(gridSize)
    /\ DOMAIN textureB = Cells(gridSize)
    /\ \A x \in 0 .. gridSize - 1, y \in 0 .. gridSize - 1 :
         /\ textureA[<<x, y>>] = lastOp.arg.data[y * gridSize + x + 1]
         /\ textureB[<<x, y>>] = lastOp.arg.data[y * gridSize + x + 1]
    /\ generation = 0
    /\ useTextureA

\* The yin-yang preset, whose data differs from its transpose, was loaded
\* after one tick of another grid: the counter was 1, the two textures
\* differed and neither held the loaded data.
C17_Witness ==
  /\ lastOp.kind = "yinYang"
  /\ lastOp.gen = 1
  /\ lastOp.before # lastOp.other
  /\ lastOp.before # textureA
  /\ lastOp.other # textureA
  /\ \E x \in 0 .. gridSize - 1, y \in 0 .. gridSize - 1 :
       lastOp.arg.data[y * gridSize + x + 1] # lastOp.arg.data[x * gridSize + y + 1]

\* C18: after a resize both state textures are all Dead and both history
\* textures all 0 over the new grid, the generation counter is 0 and
\* textureA is current.
C18_ResizeClears ==
  lastOp.kind = "resize" =>
    /\ textureA = [c \in Cells(gridSize) |-> Dead]
    /\ textureB = [c \in Cells(gridSize) |-> Dead]
    /\ historyTextureA = [c \in Cells(gridSize) |-> 0]
    /\ historyTextureB = [c \in Cells(gridSize) |-> 0]
    /\ generation = 0
    /\ useTextureA

\* A resize to the other size right after two ticks with trails enabled:
\* the counter was 2, the two state textures differed and the grid had Alive
\* cells, whose trail the second tick had set to 1.0.
C18_Witness ==
  /\ lastOp.kind = "resize"
  /\ lastOp.gen = 2
  /\ trailsActive
  /\ DOMAIN lastOp.before # Cells(gridSize)
  /\ lastOp.before # lastOp.other
  /\ \E c \in DOMAIN lastOp.before : lastOp.before[c] = Alive

\* min(max(v, 1), 144)
Clamped(v) == IF v < 1 THEN 1 ELSE IF v > 144 THEN 144 ELSE v

\* C19: after the cap listener ran with an integer v, the tick interval is
\* 1000 / min(max(v, 1), 144) milliseconds: it is that fraction, and an
\* elapsed time is below it exactly when elapsed * min(max(v, 1), 144) is
\* below 1000.
C19_CapClamped ==
  lastOp.kind = "fpsCap" =>
    LET cap == Clamped(lastOp.arg.value)
    IN  /\ ~fpsInterval.nan
        /\ fpsInterval.den > 0
        /\ fpsInterval.num * cap = 1000 * fpsInterval.den
        /\ \A e \in RateElapsed :
             LessThanInterval(e, fpsInterval) <=> e * cap < 1000

\* The cap was set to a value above 144 while playing, after a frame had
\* ticked: at the interval in force an elapsed time of 6 ms is below it and
\* one of 7 ms is not.
C19_Witness ==
  /\ lastOp.kind = "fpsCap"
  /\ lastOp.arg.value > 144
  /\ isPlaying
  /\ generation > 0
  /\ LessThanInterval(6, fpsInterval)
  /\ ~LessThanInterval(7, fpsInterval)

\* C20: from a state where a tick has been submitted and its flip of
\* useTextureA has not happened, the only step is that flip: the stamp
\* handler does not move and no state texture changes; and likewise from a
\* state where a stamp has been submitted and not yet flipped.
C20_NoInterleaving ==
  [][ /\ pc.frame = "submitted" =>
           /\ pc'.frame = "idle"
           /\ pc'.stamp = pc.stamp
           /\ useTextureA' = ~useTextureA
           /\ textureA' = textureA /\ textureB' = textureB
      /\ pc.stamp = "submitted" =>
           /\ pc'.stamp = "idle"
           /\ pc'.frame = pc.frame
           /\ useTextureA' = ~useTextureA
           /\ textureA' = textureA /\ textureB' = textureB ]_vars

\* A stamp has been submitted and not yet flipped, after a tick that changed
\* the grid had been submitted and flipped.
C20_Witness ==
  /\ pc.stamp = "submitted"
  /\ pc.frame = "idle"
  /\ lastOp.kind = "stamp"
  /\ lastOp.gen = 1
  /\ lastOp.before # lastOp.other

\* The state texture of a binding name, and the name the flag makes current.
StateTexture(name) == IF name = "A" THEN textureA ELSE textureB
CurrentName(flag) == IF flag THEN "A" ELSE "B"

\* C21: one of the two state textures is current, the one the flag names;
\* every tick and every stamp loads from the texture that was current when
\* it started and stores into the other one, leaves the texture it loaded
\* from as it was, and flips the flag once.
C21_PingPong ==
  /\ useTextureA \in BOOLEAN
  /\ CurrentGrid = StateTexture(CurrentName(useTextureA))
  /\ lastOp.kind \in {"tick", "stamp"} =>
       /\ lastOp.bound.cellStateIn = CurrentName(lastOp.flag)
       /\ lastOp.bound.cellStateOut = CurrentName(~lastOp.flag)
       /\ lastOp.bound.cellStateOut # lastOp.bound.cellStateIn
       /\ StateTexture(lastOp.bound.cellStateIn) = lastOp.before
       /\ StateTexture(lastOp.bound.cellStateOut) = lastOp.out
       /\ useTextureA = ~lastOp.flag

\* A tick that found textureB current, after a stamp and a tick: it changed
\* the grid, and textureA held an older grid than the one it read.
C21_Witness ==
  /\ Ticked
  /\ ~lastOp.flag
  /\ lastOp.gen = 1
  /\ lastOp.before # lastOp.out
  /\ lastOp.other # lastOp.before
  /\ lastOp.other # lastOp.out

\* The history texture the next history pass will load from: historyIn of
\* the group frame picks by useTextureA.
NextTrailIn ==
  (IF useTextureA THEN historyBindGroupB ELSE historyBindGroupA).historyIn

\* C22: the history texture the next trail update loads from is the one the
\* most recent trail update stored into.
C22_TrailLockstep == NextTrailIn = lastOp.trail

\* The Dead or Alive cells of g with at least one Chaos neighbour.
SeedSensitive(g, size) ==
  {c \in Cells(size) : Plain(g[c]) /\ \E n \in Around(c, size) : g[n] = Chaos}

\* C23: the grid a tick leaves is the transition function of the grid it
\* found and its time seed, whatever the destination texture held; a tick
\* of the same grid under any other time seed leaves the same value in
\* every cell that is not a Dead or Alive cell with a Chaos neighbour.
C23_SeedInfluence ==
  Ticked =>
    /\ CurrentGrid = computeMain(Before, BlankGrid(gridSize), gridSize,
                                 TickGroups, TickGroups, TickTime)
    /\ \A t \in KernelTimeSeeds :
         LET alt == computeMain(Before, Before, gridSize, TickGroups, TickGroups, t)
         IN  /\ t = TickTime => alt = CurrentGrid
             /\ \A c \in Cells(gridSize) \ SeedSensitive(Before, gridSize) :
                  alt[c] = CurrentGrid[c]

\* A tick whose result another time seed would have changed, in a Dead cell
\* and in an Alive cell with Chaos neighbours, on a grid that also has a
\* Dead cell with Alive neighbours and no Chaos neighbour.
C23_Witness ==
  /\ Ticked
  /\ \E t \in KernelTimeSeeds :
       LET alt == computeMain(Before, Before, gridSize, TickGroups, TickGroups, t)
       IN  /\ \E c \in SeedSensitive(Before, gridSize) :
                Before[c] = Dead /\ alt[c] # CurrentGrid[c]
           /\ \E c \in SeedSensitive(Before, gridSize) :
                Before[c] = Alive /\ alt[c] # CurrentGrid[c]
  /\ \E c \in Cells(gridSize) \ SeedSensitive(Before, gridSize) :
       /\ Before[c] = Dead
       /\ \E n \in Around(c, gridSize) : Before[n] = Alive

\* The colour of each state's band in the palette.
BucketColor(state) ==
  CASE state = Dead        -> palette[1]
    [] state = Alive       -> palette[2]
    [] state = Chaos       -> palette[3]
    [] state = AlwaysDead  -> palette[4]
    [] state = AlwaysAlive -> palette[5]

\* C24: for every cell and every trail value held for it in a history
\* texture, the colour is the base colour of the cell's state, unchanged
\* when the trail value is at most 0.01 and otherwise with the trail colour
\* mixed over it at weight trail * 0.6; and that weight is at most 0.6.
C24_OverlayCapped ==
  \A c \in Cells(gridSize) :
    \A h \in {historyTextureA[c], historyTextureB[c]} :
      LET color == FragmentColor(CurrentGrid[c], h, palette)
      IN  /\ color.under = BucketColor(CurrentGrid[c])
          /\ 100 * h <= FP => color.alpha = 0
          /\ 100 * h > FP =>
                /\ color.over = palette[6]
                /\ color.alpha = (h * 6) \div 10
          /\ color.alpha <= (6 * FP) \div 10

\* Canvas points, as fractions of the width and height in FP units.
ScreenPoints ==
  {<<(i * FP) \div 7, (j * FP) \div 5>> : i \in 0 .. 6, j \in 0 .. 4}
    \cup ViewPointers

\* C25: for every canvas point the texel the fragment shader loads for it
\* is the cell getGridPos returns for a pointer at it.
C25_RenderMatchesPointer ==
  \A p \in ScreenPoints :
    FragmentCoords(VertexUV(ClipPos(p[1], p[2])), viewUniformBuffer, gridSize)
      = getGridPos(p[1], p[2])

\* A view zoomed out and panned by a drag: two canvas points in different
\* copies of the torus show the same cell, which is not in row or column 0.
C25_Witness ==
  /\ lastOp.kind = "mousemove"
  /\ zoom < FP
  /\ panX # 0 /\ panY # 0
  /\ \E p, q \in ScreenPoints :
       /\ p[1] < q[1] /\ p[2] = q[2]
       /\ getGridPos(p[1], p[2]) = getGridPos(q[1], q[2])
       /\ getGridPos(p[1], p[2])[1] > 0 /\ getGridPos(p[1], p[2])[2] > 0
       /\ \E r \in ScreenPoints :
            /\ p[1] < r[1] /\ r[1] < q[1] /\ r[2] = p[2]
            /\ getGridPos(r[1], r[2]) # getGridPos(p[1], p[2])

\* C26: a frame callback that finds the simulation playing runs the compute
\* pass and the trail pass and increments the counter by its submit, and one
\* that finds it paused does none of these; from the submit to the end of
\* the callback nothing else runs, isPlaying keeps its value, and the
\* callback ends with the flag flipped exactly when it submitted a tick.
C26_TickAtomic ==
  [][ /\ (pc.frame = "idle" /\ pc'.frame # "idle") =>
           LET n    == CeilDiv(gridSize, WORKGROUP_SIZE)
               out  == CurrentName(~useTextureA)
               new  == IF out = "A" THEN textureA' ELSE textureB'
               old  == IF out = "A" THEN textureA ELSE textureB
               hin  == IF NextTrailIn = "A" THEN historyTextureA ELSE historyTextureB
               hold == IF NextTrailIn = "A" THEN historyTextureB ELSE historyTextureA
               hnew == IF NextTrailIn = "A" THEN historyTextureB' ELSE historyTextureA'
           IN  IF isPlaying
                 THEN /\ pc'.frame = "submitted"
                      /\ generation' = generation + 1
                      /\ new = computeMain(CurrentGrid, old, gridSize, n, n,
                                           lastOp'.arg.time10)
                      /\ hnew = historyMain(new, hin, hold, gridSize, n, n,
                                            decayValue, trailsActive)
                 ELSE /\ pc'.frame = "drawn"
                      /\ UNCHANGED <<textureA, textureB, historyTextureA,
                                     historyTextureB, generation>>
      /\ pc.frame # "idle" =>
           /\ pc'.frame = "idle"
           /\ isPlaying' = isPlaying
           /\ UNCHANGED <<textureA, textureB, historyTextureA, historyTextureB,
                          generation>>
           /\ useTextureA' = IF pc.frame = "submitted" THEN ~useTextureA
                             ELSE useTextureA ]_vars

\* A frame callback that found the simulation paused has submitted its
\* render pass: the pause was requested after a tick had completed, with the
\* counter at 1 and the flag flipped.
C26_Witness ==
  /\ pc.frame = "drawn"
  /\ ~isPlaying
  /\ generation = 1
  /\ ~useTextureA
  /\ lastOp.kind = "render"

\* C27: the history texture the render pass of a tick's frame samples is
\* the one the trail update of that tick stored into.
C27_RenderedTrailFresh ==
  Ticked => lastOp.bound.historyTexture = lastOp.bound.historyOut


\* C28: a frame callback advances the counter by at most one, and while the
\* simulation plays with the tick interval left alone, the k-th tick after a
\* tick comes no earlier than k intervals after the boundary that tick
\* stored in then.
C28_TickRateCapped ==
  /\ lastOp.kind \in {"tick", "skip", "render"} => generation <= lastOp.gen + 1
  /\ \A i \in 1 .. Len(lastOp.pace) :
       LET mark == lastOp.pace[i]
       IN  mark.k >= 1 =>
             /\ ~mark.nan
             /\ mark.since * fpsInterval.den
                  >= mark.k * fpsInterval.num * ClockUnit


\* C29: one frame loop is active at most: the number of frame callbacks
\* requested and not yet run, each of which requests itself again when it
\* runs, never exceeds one, whatever stamps, zooms and pans came while
\* paused.
C29_OneFrameLoop ==
  pendingFrames <= 1


\* C30: with loads that supply the codes 0..4 only, every cell of both state
\* textures, the current one among them, holds one of 0, 1, 2, 3, 4 after
\* any ticks, stamps, loads and resizes, and the textures cover the grid.
C30_CodesInRange ==
  /\ DOMAIN textureA = Cells(gridSize)
  /\ DOMAIN textureB = Cells(gridSize)
  /\ \A c \in Cells(gridSize) :
       /\ textureA[c] \in CellStates
       /\ textureB[c] \in CellStates

\* A stamp that followed a tick wrote over an Always Alive cell of the grid
\* it found and the grid it left holds each of the five codes.
C30_Witness ==
  /\ Stamped
  /\ generation >= 1
  /\ \E c \in Cells(gridSize) :
       lastOp.before[c] = AlwaysAlive /\ CurrentGrid[c] = AlwaysDead
  /\ \A s \in CellStates : \E c \in Cells(gridSize) : CurrentGrid[c] = s


\* C31: as long as no load or resize comes, ticks and stamps leave the set
\* of positions that hold Chaos and the set of positions that hold Always
\* Dead or Always Alive as the latest load or resize left them.
C31_SpecialPositionsKept ==
  /\ SpecialAt(CurrentGrid) = lastOp.special
  /\ lastOp.kind \in {"tick", "stamp"} =>
       SpecialAt(lastOp.out) = SpecialAt(lastOp.before)

\* A stamp that followed a tick wrote over a Dead or Alive cell and over an
\* Always Dead or Always Alive cell of a grid that holds Chaos too.
C31_Witness ==
  /\ Stamped
  /\ generation >= 1
  /\ lastOp.special.chaos # {}
  /\ \E c \in lastOp.special.fixed : lastOp.before[c] # CurrentGrid[c]
  /\ \E c \in Cells(gridSize) :
       lastOp.before[c] \in {Dead, Alive} /\ lastOp.before[c] # CurrentGrid[c]

\* The stamp came right after a stamp of the same pattern at the same
\* anchor, and the pattern is no larger than the grid.
StampedTwice ==
  /\ Stamped
  /\ lastOp.was.twice
  /\ patterns[lastOp.arg.pattern + 1].w <= gridSize
  /\ patterns[lastOp.arg.pattern + 1].h <= gridSize

\* C32: the second of two stamps in a row of the same pattern at the same
\* anchor leaves the current grid as the first one found it.
C32_DoubleStampRestores ==
  StampedTwice => CurrentGrid = lastOp.was.before

\* Two stamps in a row at an anchor outside the grid, each of which changed
\* Dead or Alive cells and an Always Dead or Always Alive cell.
C32_Witness ==
  /\ StampedTwice
  /\ (lastOp.arg.pos[1] < 0 \/ lastOp.arg.pos[2] < 0)
  /\ \E c \in Cells(gridSize) :
       lastOp.before[c] \in {AlwaysDead, AlwaysAlive} /\ lastOp.before[c] # CurrentGrid[c]
  /\ \E c \in Cells(gridSize) :
       lastOp.before[c] \in {Dead, Alive} /\ lastOp.before[c] # CurrentGrid[c]


\* C33: the state texture a frame's render pass samples holds the grid
\* written last: in a frame that ticked, the texture its compute pass stored
\* into; in a frame that only drew, the current texture, holding the grid
\* the handler before it left.
C33_RenderedGridFresh ==
  /\ Ticked =>
       /\ lastOp.bound.cellTexture = lastOp.bound.cellStateOut
       /\ StateTexture(lastOp.bound.cellTexture) = lastOp.out
  /\ lastOp.kind = "render" =>
       /\ lastOp.bound.cellTexture = CurrentName(useTextureA)
       /\ StateTexture(lastOp.bound.cellTexture) = lastOp.prev

\* A paused frame drew texture B, which a stamp had just written and which
\* differs from texture A.
C33_Witness ==
  /\ lastOp.kind = "render"
  /\ ~useTextureA
  /\ lastOp.bound.cellTexture = "B"
  /\ textureA # textureB


\* The handler was a mousemove of a pan drag.
Dragged == lastOp.kind = "mousemove" /\ isDragging

AskedZoom == ZoomStep(lastOp.arg.value, lastOp.arg.deltaYNegative)

C36_IntervalFinite ==
  /\ ~fpsInterval.nan
  /\ fpsInterval.num > 0
  /\ fpsInterval.den > 0

====
